---- MODULE Spec2Model ----
(***************************************************************************)
(* A state-machine model of the trip-genius booking assistant.             *)
(*                                                                         *)
(*  Spec         the resumable parameter-collection session of            *)
(*               app/core/helpers.py (a generator driven by next/send)     *)
(*  SpecBooking  one call of app/core/booking_agent.py initiate_bookings:  *)
(*               flight parameters, travelers, assembly, the three legs    *)
(*  SpecProcess  the same call in a process that served calls before      *)
(*  SpecHttp     the session table and the two handlers of app/main.py     *)
(*  SpecThreads  continue_booking statement by statement on two pool    *)
(*               threads that hold the same session id                    *)
(*  SpecTraveler the traveler-details generator of app/core/helpers.py     *)
(*  SpecTwice    the parameter session run twice on the same answers       *)
(*  SpecFair     Spec with a user who keeps answering until accepted       *)
(*  SpecPath     find_optimal_path of app/core/optimized_tools.py          *)
(*                                                                         *)
(* JSON scalars and LLM outputs are strings; Python's None is the value    *)
(* None below.  Text typed by the user is a sequence of characters, so     *)
(* that str.strip() is computed, not assumed.                              *)
(***************************************************************************)
EXTENDS Integers, Sequences, FiniteSets, TLC

\* ------------------------------------------------------------------ bounds
\* Longest user answer, in characters.
MaxLen == 1
\* Longest required list of a schema.
MaxRequired == 2
\* Values the transport may deliver to one session.
MaxSends == 3
\* Idle periods of the transport that are told apart.
MaxIdle == 1
\* Longest line typed at the console, in characters.
MaxLine == 2
\* Console lines one booking request may read.
MaxConsole == 5
\* Travelers of one booking request.
MaxTravelers == 2
\* Offers a vendor search may list.
MaxOffers == 2
\* Start requests the HTTP surface handles.
MaxStarts == 2
\* Continue requests the HTTP surface handles.
MaxContinues == 2
\* LLM calls counted by the calls the process served earlier.
MaxEarlierCalls == 1
\* Leading required flight fields the one-shot extraction may fail to give.
MaxDoubtful == 2
\* Travelers in one extracted list.
MaxParty == 2
\* Answers given to a session that is run twice.
MaxAnswers == 2
\* Attractions in one distance graph.
MaxNodes == 3
\* Largest distance between two attractions.
MaxDistance == 2

\* ------------------------------------------------------------ value domain
None == "<None>"

\* The literal two-quote string the single-field prompt asks the LLM to return
\* when extraction is not possible.
EmptyMarker == "''"

Chars == {" ", "a"}

RECURSIVE SeqsUpTo(_, _)
SeqsUpTo(S, n) ==
    IF n = 0 THEN {<<>>}
    ELSE LET shorter == SeqsUpTo(S, n - 1)
         IN  shorter \cup {Append(s, c) : s \in shorter, c \in S}

Texts == SeqsUpTo(Chars, MaxLen)

\* What a resume can deliver: a string, or null (user_input: Optional[str] = None).
UserInputs == {[isNone |-> TRUE, text |-> <<>>]}
              \cup {[isNone |-> FALSE, text |-> t] : t \in Texts}

\* str.strip(): leading and trailing whitespace removed.
RECURSIVE LStrip(_)
LStrip(s) == IF s # <<>> /\ Head(s) = " " THEN LStrip(Tail(s)) ELSE s

RECURSIVE RStrip(_)
RStrip(s) ==
    IF s # <<>> /\ s[Len(s)] = " " THEN RStrip(SubSeq(s, 1, Len(s) - 1)) ELSE s

Strip(s) == RStrip(LStrip(s))

\* ------------------------------------------------------------------ schema
\* Field names a schema may declare; travelClass has no entry in the
\* description table.
Params == {"originLocationCode", "destinationLocationCode", "travelClass"}

get_parameter_description(param) ==
    CASE param = "originLocationCode" ->
           "City/airport IATA code from which the traveler will depart (e.g., JFK for New York)"
      [] param = "destinationLocationCode" ->
           "City/airport IATA code to which the traveler is going (e.g., DEL for Delhi)"
      [] param = "departureDate" ->
           "Date of departure in ISO 8601 YYYY-MM-DD format (e.g., 2024-12-30)"
      [] param = "returnDate" ->
           "Date of return in ISO 8601 YYYY-MM-DD format (e.g., 2025-01-05)"
      [] param = "adults" -> "Number of adult travelers (age 12 or older)"
      [] param = "max" ->
           "Maximum number of flight offers to return (must be >= 1, default 250)"
      [] OTHER -> "No description available"

\* Required lists: sequences of distinct field names.
RequiredLists ==
    {r \in SeqsUpTo(Params, MaxRequired) :
        \A i, j \in 1..Len(r) : i # j => r[i] # r[j]}

\* ------------------------------------------------------- extractor outcomes
\* Values the one-shot extraction may give a field.
JsonValues == {None, "", EmptyMarker, "JFK"}

\* JSON objects over the schema's fields.
JsonObjects ==
    UNION {[D -> JsonValues] : D \in SUBSET Params}

\* chain.invoke + json.loads of the one-shot extraction: the call raises, the
\* text is not JSON, the JSON is not an object, or it is an object.
OneShotOutcomes ==
    {[kind |-> k, obj |-> <<>>] : k \in {"raise", "malformed", "nonobject"}}
    \cup {[kind |-> "object", obj |-> o] : o \in JsonObjects}

\* response.content of the single-field extraction, or the call raises.
SingleContents == {"", EmptyMarker, "JFK"}
SingleOutcomes ==
    {[kind |-> "raise", content |-> ""]}
    \cup {[kind |-> "content", content |-> c] : c \in SingleContents}

\* --------------------------------------------------------------- variables
VARIABLES
    sess,        \* the generator object of helpers.extract_parameters_with_llm
    trav,        \* the generator object of helpers.extract_traveler_details
    twice,       \* the record of a query that is run twice
    user_input,  \* the value the transport delivered last
    sends,       \* values delivered so far
    idle,        \* idle periods of the transport so far
    bk,          \* the frame of one initiate_bookings call (booking_agent.py)
    tour,        \* the frame of one find_optimal_path call
    environ,     \* os.environ: the two vendor credentials
    llm_calls_count,  \* booking_agent.py's module-level counter
    vendor_calls,     \* HTTP requests sent to the vendor so far
    console_reads,    \* lines read from the console by input() so far
    SESSIONS,    \* main.py's table: session id -> generator
    request,     \* the HTTP request handled last
    response,    \* the HTTP response given last
    issued,      \* session ids issued so far
    continues,   \* /continue_booking requests handled so far
    workers,     \* the threads of the server's pool, each in a handler
    heap,        \* the generator objects, by the id they were stored under
    gi_running   \* the ids of the generator objects that are executing

sessVars == <<sess, trav, twice, user_input, sends, idle>>
bookVars == <<bk, tour, environ, llm_calls_count, vendor_calls, console_reads>>
httpVars == <<SESSIONS, request, response, issued, continues,
              workers, heap, gi_running>>
vars == <<sess, trav, twice, user_input, sends, idle,
          bk, tour, environ, llm_calls_count, vendor_calls, console_reads,
          SESSIONS, request, response, issued, continues,
          workers, heap, gi_running>>

NoYield == [type |-> "none", param |-> "", description |-> ""]

\* The dict yielded at line 165.
PromptFor(param) ==
    [type |-> "prompt", param |-> param,
     description |-> get_parameter_description(param)]

\* The dict yielded at line 176.
MessageFor(param) ==
    [type |-> "message", param |-> param, description |-> ""]

\* The default mapping after a JSONDecodeError.
DefaultParams == [k \in {"adults", "max"} |-> IF k = "adults" THEN "1" ELSE "5"]

\* A generator object that has not run yet.
NewSession(required, interactive_mode) ==
    [pc |-> "CREATED",
     required |-> required,
     interactive_mode |-> interactive_mode,
     extracted_params |-> <<>>,
     is_mapping |-> TRUE,
     llm_calls_count |-> 0,
     invocations |-> 0,
     cursor |-> 1,
     emitted |-> NoYield,
     input_value |-> <<>>,
     discarded |-> 0,
     one_shot |-> [kind |-> "none", obj |-> <<>>]]

Suspended(s) == s.pc \in {"AWAITING_INPUT", "MESSAGE"}

\* A filter that drops every falsy value: {k: v for k, v in ... if v}
DropFalsy(m) ==
    LET keep == {k \in DOMAIN m : m[k] # None /\ m[k] # ""}
    IN  [k \in keep |-> m[k]]

\* {k: v for k, v in extracted_params.items() if v is not None}
DropNone(m) ==
    LET keep == {k \in DOMAIN m : m[k] # None}
    IN  [k \in keep |-> m[k]]

\* A scan that also asks for a field holding the empty string:
\* while not extracted_params.get(param)
ScanRequiredTruthy(s, from) ==
    LET missing == {j \in from..Len(s.required) :
                        \/ s.required[j] \notin DOMAIN s.extracted_params
                        \/ s.extracted_params[s.required[j]] = ""}
    IN  IF missing = {}
        THEN [s EXCEPT !.pc = "COMPLETE", !.cursor = Len(s.required) + 1,
                       !.emitted = NoYield]
        ELSE LET j == CHOOSE j \in missing : \A k \in missing : j <= k
             IN  [s EXCEPT !.pc = "AWAITING_INPUT", !.cursor = j,
                           !.emitted = PromptFor(s.required[j])]

\* A scan that asks for the last absent field instead of the first.
ScanLastMissing(s, from) ==
    LET missing == {j \in from..Len(s.required) :
                        s.required[j] \notin DOMAIN s.extracted_params}
    IN  IF missing = {}
        THEN [s EXCEPT !.pc = "COMPLETE", !.cursor = Len(s.required) + 1,
                       !.emitted = NoYield]
        ELSE LET j == CHOOSE j \in missing : \A k \in missing : j >= k
             IN  [s EXCEPT !.pc = "AWAITING_INPUT", !.cursor = j,
                           !.emitted = PromptFor(s.required[j])]

\* for param in required_params: while param not in extracted_params: yield ...
\* resumed at position `from` of the required list.
ScanRequired(s, from) ==
    LET missing == {j \in from..Len(s.required) :
                        s.required[j] \notin DOMAIN s.extracted_params}
    IN  IF missing = {}
        THEN [s EXCEPT !.pc = "COMPLETE", !.cursor = Len(s.required) + 1,
                       !.emitted = NoYield]
        ELSE LET j == CHOOSE j \in missing : \A k \in missing : j <= k
             IN  [s EXCEPT !.pc = "AWAITING_INPUT", !.cursor = j,
                           !.emitted = PromptFor(s.required[j])]

\* The body of the generator up to its first yield or its return.
SessionStart(s, r) ==
    LET called == [s EXCEPT !.llm_calls_count = 1, !.invocations = 1,
                            !.one_shot = r]
        parsed == IF r.kind = "malformed" THEN DefaultParams ELSE r.obj
    IN  IF r.kind = "raise"
        THEN [called EXCEPT !.pc = "RAISED"]
        ELSE IF ~s.interactive_mode
        THEN [called EXCEPT !.pc = "COMPLETE",
                            !.extracted_params = parsed,
                            !.is_mapping = (r.kind # "nonobject")]
        ELSE IF r.kind = "nonobject"
        THEN [called EXCEPT !.pc = "RAISED", !.is_mapping = FALSE]
        ELSE ScanRequired([called EXCEPT !.extracted_params = DropNone(parsed)], 1)

\* The single-field result is refused only when it is None or the marker.
ExtractionFailed(value) == value = None \/ value = EmptyMarker

\* The generator resumed at the prompt's yield (line 165) with value v.
ResumeAtPrompt(s, v, r) ==
    IF v.isNone
    THEN [s EXCEPT !.pc = "RAISED", !.emitted = NoYield]
    ELSE LET param == s.required[s.cursor]
             read == [s EXCEPT !.input_value = Strip(v.text),
                               !.llm_calls_count = @ + 1,
                               !.invocations = @ + 1]
         IN  IF r.kind = "raise"
             THEN [read EXCEPT !.pc = "RAISED", !.emitted = NoYield]
             ELSE IF ExtractionFailed(r.content)
             THEN [read EXCEPT !.pc = "MESSAGE", !.emitted = MessageFor(param)]
             ELSE ScanRequired(
                    [read EXCEPT !.extracted_params =
                        [k \in DOMAIN @ \cup {param} |->
                            IF k = param THEN r.content ELSE @[k]]],
                    s.cursor)

\* A resume at the message's yield that counts an extraction it did not make.
ResumeAtMessageCounted(s, v) ==
    ScanRequired([s EXCEPT !.discarded = @ + 1, !.llm_calls_count = @ + 1],
                 s.cursor)

\* The generator resumed at the message's yield (line 176): the value sent is
\* the value of a yield expression nothing reads; `continue` re-enters the loop.
ResumeAtMessage(s, v) ==
    ScanRequired([s EXCEPT !.discarded = @ + 1], s.cursor)

\* generator.send(v)
SessionSend(s, v, r) ==
    IF s.pc = "MESSAGE" THEN ResumeAtMessage(s, v) ELSE ResumeAtPrompt(s, v, r)

\* The HTTP surface has handled no request.
NoResponse ==
    [status |-> 0, session_id |-> 0, type |-> "", content |-> "",
     done |-> FALSE, detail |-> ""]

NoHttp ==
    /\ SESSIONS = <<>>
    /\ request = [kind |-> "none", session_id |-> 0]
    /\ response = NoResponse
    /\ issued = 0
    /\ continues = 0
    /\ workers = <<>>
    /\ heap = <<>>
    /\ gi_running = {}

\* No booking request is being served.
NoBooking ==
    /\ bk = [pc |-> "NONE"]
    /\ tour = [pc |-> "NONE"]
    /\ environ = [AMADEUS_CLIENT_ID |-> None, AMADEUS_CLIENT_SECRET |-> None]
    /\ llm_calls_count = 0
    /\ vendor_calls = 0
    /\ console_reads = 0

\* ----------------------------------------------------------------- actions
Init ==
    /\ \E required \in RequiredLists, interactive_mode \in BOOLEAN :
          sess = NewSession(required, interactive_mode)
    /\ trav = [pc |-> "NONE"]
    /\ user_input = [isNone |-> TRUE, text |-> <<>>]
    /\ sends = 0
    /\ idle = 0
    /\ twice = [run |-> 0]
    /\ NoBooking
    /\ NoHttp

\* next(gen): the transport starts the generator.
Start ==
    /\ sess.pc = "CREATED"
    /\ \E r \in OneShotOutcomes : sess' = SessionStart(sess, r)
    /\ UNCHANGED <<trav, twice, user_input, sends, idle>>
    /\ UNCHANGED bookVars
    /\ UNCHANGED httpVars

\* gen.send(user_input): the transport resumes the suspended generator.
Resume ==
    /\ Suspended(sess)
    /\ sends < MaxSends
    /\ \E v \in UserInputs, r \in SingleOutcomes :
          /\ user_input' = v
          /\ sess' = SessionSend(sess, v, r)
    /\ sends' = sends + 1
    /\ UNCHANGED <<trav, twice, idle>>
    /\ UNCHANGED bookVars
    /\ UNCHANGED httpVars

\* An idle transport that re-runs the suspended generator on its own.
WaitRetries ==
    /\ Suspended(sess)
    /\ idle < MaxIdle
    /\ idle' = idle + 1
    /\ \E r \in SingleOutcomes :
          sess' = SessionSend(sess, [isNone |-> FALSE, text |-> <<>>], r)
    /\ UNCHANGED <<trav, twice, user_input, sends>>
    /\ UNCHANGED bookVars
    /\ UNCHANGED httpVars

\* The transport has returned the yielded dict to its caller and nothing runs
\* the generator until the next send.
Wait ==
    /\ Suspended(sess)
    /\ idle < MaxIdle
    /\ idle' = idle + 1
    /\ UNCHANGED <<sess, trav, twice, user_input, sends>>
    /\ UNCHANGED bookVars
    /\ UNCHANGED httpVars

Next == Start \/ Resume \/ Wait

Spec == Init /\ [][Next]_vars

\* A value the single-field extraction accepts.
AcceptableContents == {c \in SingleContents : ~ExtractionFailed(c) /\ c # ""}

\* gen.send(text) with a text from which the single-field extraction gives
\* an acceptable value.  The user may give such an answer at any time, so
\* the step has no bound of its own: every one of them taken at a prompt
\* fills a required field.
ResumeAccepted ==
    /\ Suspended(sess)
    /\ \E v \in UserInputs, c \in AcceptableContents :
          /\ ~v.isNone
          /\ user_input' = v
          /\ sess' = SessionSend(sess, v, [kind |-> "content", content |-> c])
    /\ sends' = sends + 1
    /\ UNCHANGED <<trav, twice, idle>>
    /\ UNCHANGED bookVars
    /\ UNCHANGED httpVars

NextFair == Start \/ Resume \/ ResumeAccepted

\* The transport runs a generator it has created, and a user who is asked
\* for a field keeps answering until an answer is good.
SpecFair ==
    /\ Init
    /\ [][NextFair]_vars
    /\ WF_vars(Start)
    /\ WF_vars(ResumeAccepted)

\* ======================================================================
\* app/core/booking_agent.py: one call of initiate_bookings.  The function
\* runs on the caller's thread; it stops only inside input() and while an
\* LLM or vendor request is outstanding.  bk.pc names the place it is at.
\* ======================================================================

\* ------------------------------------------------------- console lines
\* Lines typed at a free-text prompt.
FreeLines == SeqsUpTo({" ", "a"}, MaxLine)
\* Lines typed at the e-mail prompt.
EmailLines == SeqsUpTo({"a", "@", "."}, MaxLine)
\* Lines typed at an offer-selection prompt: nothing, numbers in and out
\* of range, a leading zero, a blank, a letter, and digits that are not
\* decimals.
ChoiceLines ==
    {<<>>, <<"0">>, <<"1">>, <<"2">>, <<"3">>, <<"9">>, <<"0", "1">>,
     <<"1", "2">>, <<" ", "1">>, <<"a">>, <<"sup2">>, <<"1", "sup2">>}
\* Lines typed at the "add another traveler" prompt.
AddMoreLines ==
    {<<>>, <<"n", "o">>, <<"y", "e", "s">>, <<"Y", "E", "S">>,
     <<"y", "e", "s", " ">>}

\* str.lower, on the characters that are typed.
LowerChar(c) ==
    CASE c = "Y" -> "y"
      [] c = "E" -> "e"
      [] c = "S" -> "s"
      [] OTHER -> c

Lower(line) == [i \in 1..Len(line) |-> LowerChar(line[i])]

Contains(line, c) == \E i \in 1..Len(line) : line[i] = c

DigitValue(c) ==
    CASE c = "0" -> 0
      [] c = "1" -> 1
      [] c = "2" -> 2
      [] c = "3" -> 3
      [] c = "4" -> 4
      [] c = "5" -> 5
      [] c = "6" -> 6
      [] c = "7" -> 7
      [] c = "8" -> 8
      [] c = "9" -> 9
      [] OTHER -> -1

\* Characters str.isdigit accepts and int() refuses: "sup2" is the one
\* character U+00B2 (superscript two), a digit that is not a decimal.
DigitNotDecimal == {"sup2"}

\* str.isdigit: non-empty and every character a digit.
IsDigit(line) ==
    /\ line # <<>>
    /\ \A i \in 1..Len(line) :
          DigitValue(line[i]) >= 0 \/ line[i] \in DigitNotDecimal

\* int(line) raises ValueError, for a line str.isdigit accepted.
IntRaises(line) == \E i \in 1..Len(line) : line[i] \in DigitNotDecimal

\* int(line), for a line of digits.
RECURSIVE ToInt(_)
ToInt(line) ==
    IF line = <<>> THEN 0
    ELSE 10 * ToInt(SubSeq(line, 1, Len(line) - 1)) + DigitValue(line[Len(line)])

Digits == <<"0", "1", "2", "3", "4", "5", "6", "7", "8", "9">>

\* str(n), for n >= 0.
RECURSIVE Str(_)
Str(n) ==
    IF n < 10 THEN Digits[n + 1]
    ELSE Str(n \div 10) \o Digits[(n % 10) + 1]

Min(a, b) == IF a < b THEN a ELSE b

\* Python truthiness of a JSON scalar or of a missing key.
Falsy(v) == v = None \/ v = ""

\* The value kept for a line typed by the user: the empty string, or a
\* stand-in for the stripped text.
Typed(line) == IF Strip(line) = <<>> THEN "" ELSE "typed"

\* ------------------------------------------------------- flight schema
\* The parameters of _run without a default, in signature order: the
\* "required" list of the converted tool.
FlightRequired ==
    <<"originLocationCode", "destinationLocationCode", "departureDate",
      "returnDate", "travelPlanPreference", "country", "city", "currencyCode">>

FlightRequiredSet == {FlightRequired[i] : i \in 1..Len(FlightRequired)}

\* The fields a one-shot answer may leave out, null or empty.
DoubtfulFields ==
    {FlightRequired[i] : i \in 1..Min(MaxDoubtful, Len(FlightRequired))}

BadSets == SUBSET DoubtfulFields

\* A one-shot object in which the fields of bad are left out, null or empty.
FlightObject(bad, kind) ==
    [k \in FlightRequiredSet \ (IF kind = "absent" THEN bad ELSE {}) |->
        IF k \in bad THEN kind ELSE "JFK"]

\* A complete one-shot object in which the extractor also counted adults.
FlightObjectWithAdults ==
    [k \in FlightRequiredSet \cup {"adults"} |->
        IF k = "adults" THEN "9" ELSE "JFK"]

FlightObjects ==
    {FlightObject(bad, kind) : bad \in BadSets, kind \in {"absent", None, ""}}
    \cup {FlightObjectWithAdults}

FlightOneShotOutcomes ==
    {[kind |-> k, obj |-> <<>>] : k \in {"raise", "malformed", "nonobject"}}
    \cup {[kind |-> "object", obj |-> o] : o \in FlightObjects}

\* dict.get(key, default)
Get(m, key, default) == IF key \in DOMAIN m THEN m[key] ELSE default

\* ---------------------------------------------------- traveler details
\* The details of one traveler, flattened: name for the name object,
\* emailAddress and phones for the members of contact.
TravelerFields == <<"name", "dateOfBirth", "gender", "emailAddress", "phones">>

TravelerFieldSet == {TravelerFields[i] : i \in 1..Len(TravelerFields)}

CompleteTraveler == [k \in TravelerFieldSet |-> "JFK"]

EmptyTraveler == [k \in {} |-> None]

TravelerObjects ==
    {CompleteTraveler,
     EmptyTraveler,
     [CompleteTraveler EXCEPT !["gender"] = None],
     [CompleteTraveler EXCEPT !["emailAddress"] = None]}

TravelerOutcomes ==
    {[kind |-> k, obj |-> EmptyTraveler] : k \in {"raise", "nonobject"}}
    \cup {[kind |-> "object", obj |-> o] : o \in TravelerObjects}

ParseOutcomes == {"raise", "object", "nonobject"}

\* ---------------------------------------------------------- the frame
NoLegResult == [error |-> None, calls |-> None, success |-> None, order |-> FALSE]

HasCredentials == [AMADEUS_CLIENT_ID |-> "key", AMADEUS_CLIENT_SECRET |-> "key"]

Environs ==
    {HasCredentials,
     [HasCredentials EXCEPT !.AMADEUS_CLIENT_ID = None],
     [HasCredentials EXCEPT !.AMADEUS_CLIENT_SECRET = ""]}

Queries == {"", "book"}

NewBooking(query, interactive_mode, use_real_api) ==
    [pc |-> "START",
     query |-> query,
     interactive_mode |-> interactive_mode,
     use_real_api |-> use_real_api,
     flight_params |-> <<>>,
     fp_is_mapping |-> TRUE,
     cursor |-> 0,               \* position of the parameter being asked
     traveler_input |-> query,   \* text given to extract_traveler_details
     extracted_details |-> EmptyTraveler,
     tcursor |-> 0,              \* position of the traveler field being asked
     travelers_details |-> <<>>,
     booking_params |-> <<>>,
     offers |-> 0,               \* offers listed before a selection prompt
     preferred |-> 0,            \* offer index selected at the last prompt
     entry |-> <<>>,             \* line typed at the last selection prompt
     flight_booking_result |-> NoLegResult,
     hotel_booking_result |-> NoLegResult,
     itinerary_result |-> None,
     itinerary_lookup |-> "none",  \* what the itinerary leg's requests came to
     itinerary_asked |-> FALSE,    \* the itinerary leg called the LLM
     itinerary_api_calls |-> 0,    \* the itinerary leg's two local counters
     itinerary_api_success |-> 0,
     raised_at |-> "",
     llm_made |-> 0]             \* chain.invoke calls made for this request

\* The frame after n more chain.invoke calls.
Invoked(b, n) == [b EXCEPT !.llm_made = @ + n]

\* An exception leaves initiate_bookings from the named part.
Raised(b, at) == [b EXCEPT !.pc = "RAISED", !.raised_at = at]

ConsoleWaits ==
    {"PARAM_INPUT", "T_INPUT", "ADD_MORE", "ADD_DETAILS",
     "FLIGHT_INPUT", "HOTEL_INPUT"}

\* A loop that does not wait for the values it lacks.
ScanFlightNoWait(b, from) ==
    [b EXCEPT !.pc = "TRAVELER_EXTRACT"]

\* The for/while loop over the required parameters, up to the next input().
ScanFlightRequired(b, from) ==
    LET missing == {j \in from..Len(FlightRequired) :
                        FlightRequired[j] \notin DOMAIN b.flight_params}
    IN  IF missing = {}
        THEN [b EXCEPT !.pc = "TRAVELER_EXTRACT"]
        ELSE [b EXCEPT !.pc = "PARAM_INPUT",
                       !.cursor = CHOOSE j \in missing : \A k \in missing : j <= k]

\* The checks of extract_traveler_details, in order, up to the next input().
ScanTraveler(b, from) ==
    LET missing == {j \in from..Len(TravelerFields) :
                        Falsy(Get(b.extracted_details, TravelerFields[j], None))}
    IN  IF missing = {}
        THEN [b EXCEPT !.pc = "T_PARSE"]
        ELSE [b EXCEPT !.pc = "T_INPUT",
                       !.tcursor = CHOOSE j \in missing : \A k \in missing : j <= k]

\* An append that gives every traveler the id of the first.
AppendTravelerSameId(b, details) ==
    LET withId == [k \in DOMAIN details \cup {"id"} |->
                      IF k = "id" THEN "1" ELSE details[k]]
    IN  [b EXCEPT !.travelers_details = Append(@, withId)]

\* traveler_details['id'] = ...; travelers_details.append(traveler_details)
AppendTraveler(b, details) ==
    LET id == Str(Len(b.travelers_details) + 1)
        withId == [k \in DOMAIN details \cup {"id"} |->
                      IF k = "id" THEN id ELSE details[k]]
    IN  [b EXCEPT !.travelers_details = Append(@, withId)]

\* booking_params = {...}, and the return of the extraction-only mode.
\* An assembly that keeps the adult count the extractor returned.
AssembleExtractedAdults(b) ==
    IF ~b.fp_is_mapping THEN Raised(b, "assemble")
    ELSE LET booking_params ==
                 [k \in FlightRequiredSet \cup {"adults", "max"} |->
                     CASE k = "adults" ->
                              Get(b.flight_params, "adults", Str(Len(b.travelers_details)))
                       [] k = "max" -> Get(b.flight_params, "max", "5")
                       [] OTHER -> Get(b.flight_params, k, "")]
         IN  [b EXCEPT !.booking_params = booking_params,
                       !.pc = IF b.use_real_api THEN "FLIGHT" ELSE "RETURNED"]

Assemble(b) ==
    IF ~b.fp_is_mapping THEN Raised(b, "assemble")
    ELSE LET booking_params ==
                 [k \in FlightRequiredSet \cup {"adults", "max"} |->
                     CASE k = "adults" -> Str(Len(b.travelers_details))
                       [] k = "max" -> Get(b.flight_params, "max", "5")
                       [] OTHER -> Get(b.flight_params, k, "")]
         IN  [b EXCEPT !.booking_params = booking_params,
                       !.pc = IF b.use_real_api THEN "FLIGHT" ELSE "RETURNED"]

\* After the primary traveler: the add-more loop, in interactive mode only.
AfterTraveler(b) ==
    IF b.interactive_mode THEN [b EXCEPT !.pc = "ADD_MORE"] ELSE Assemble(b)

\* ------------------------------------------------------------- actions
InitBooking ==
    /\ sess = [pc |-> "NONE"]
    /\ trav = [pc |-> "NONE"]
    /\ user_input = [isNone |-> TRUE, text |-> <<>>]
    /\ sends = 0
    /\ idle = 0
    /\ twice = [run |-> 0]
    /\ \E query \in Queries, interactive_mode \in BOOLEAN, use_real_api \in BOOLEAN :
          bk = NewBooking(query, interactive_mode, use_real_api)
    /\ tour = [pc |-> "NONE"]
    /\ environ \in Environs
    /\ llm_calls_count = 0
    /\ vendor_calls = 0
    /\ console_reads = 0
    /\ NoHttp

\* extract_parameters_with_llm up to its first input() or its return.
ExtractFlightParameters ==
    /\ bk.pc = "START"
    /\ llm_calls_count' = llm_calls_count + 1
    /\ \E r \in FlightOneShotOutcomes :
          LET raw == IF r.kind = "malformed" THEN DefaultParams ELSE r.obj
              got == [bk EXCEPT !.flight_params = raw,
                                !.fp_is_mapping = (r.kind # "nonobject")]
          IN  bk' = Invoked(
                    IF r.kind = "raise" THEN Raised(bk, "params")
                    ELSE IF ~bk.interactive_mode
                         THEN [got EXCEPT !.pc = "TRAVELER_EXTRACT"]
                    ELSE IF r.kind = "nonobject" THEN Raised(bk, "params")
                    ELSE ScanFlightRequired(
                             [got EXCEPT !.flight_params = DropNone(raw)], 1),
                    1)
    /\ UNCHANGED <<tour, environ, vendor_calls, console_reads>>
    /\ UNCHANGED sessVars
    /\ UNCHANGED httpVars

\* One line at "Please provide a value for ...", and the LLM call on it.
AnswerParameterPrompt ==
    /\ bk.pc = "PARAM_INPUT"
    /\ console_reads < MaxConsole
    /\ console_reads' = console_reads + 1
    /\ llm_calls_count' = llm_calls_count + 1
    /\ \E line \in FreeLines, r \in SingleOutcomes :
          LET param == FlightRequired[bk.cursor]
          IN  bk' = Invoked(
                    IF r.kind = "raise" THEN Raised(bk, "params")
                    ELSE ScanFlightRequired(
                             [bk EXCEPT !.flight_params =
                                 [k \in DOMAIN @ \cup {param} |->
                                     IF k = param THEN r.content ELSE @[k]]],
                             bk.cursor),
                    1)
    /\ UNCHANGED <<tour, environ, vendor_calls>>
    /\ UNCHANGED sessVars
    /\ UNCHANGED httpVars

\* extract_traveler_details up to its first input() or its return.
ExtractTraveler ==
    /\ bk.pc = "TRAVELER_EXTRACT"
    /\ \E r \in TravelerOutcomes :
          LET asked == bk.traveler_input # ""
              details == IF asked /\ r.kind = "object" THEN r.obj ELSE EmptyTraveler
              isList == asked /\ r.kind = "nonobject"
          IN  /\ llm_calls_count' = llm_calls_count + (IF asked THEN 1 ELSE 0)
              /\ bk' = Invoked(
                       IF isList THEN Raised(bk, "traveler")
                       ELSE IF ~bk.interactive_mode
                            THEN AfterTraveler(AppendTraveler(bk, details))
                       ELSE ScanTraveler([bk EXCEPT !.extracted_details = details], 1),
                       IF asked THEN 1 ELSE 0)
    /\ UNCHANGED <<tour, environ, vendor_calls, console_reads>>
    /\ UNCHANGED sessVars
    /\ UNCHANGED httpVars

\* One line at a validate_input prompt of extract_traveler_details.
AnswerTravelerPrompt ==
    /\ bk.pc = "T_INPUT"
    /\ console_reads < MaxConsole
    /\ console_reads' = console_reads + 1
    /\ LET field == TravelerFields[bk.tcursor]
           lines == IF field = "emailAddress" THEN EmailLines ELSE FreeLines
           store(v) == ScanTraveler(
                           [bk EXCEPT !.extracted_details =
                               [k \in DOMAIN @ \cup {field} |->
                                   IF k = field THEN v ELSE @[k]]],
                           bk.tcursor + 1)
       IN  \E line \in lines :
              LET user_input_ == Strip(line)
              IN  bk' = CASE field = "name" ->
                               IF user_input_ = <<>> THEN Raised(bk, "traveler")
                               ELSE store("typed")
                          [] field = "emailAddress" ->
                               IF Contains(user_input_, "@") /\ Contains(user_input_, ".")
                               THEN store("typed")
                               ELSE bk
                          [] field = "phones" -> store("typed")
                          [] OTHER -> store(Typed(line))
    /\ UNCHANGED <<tour, environ, vendor_calls, llm_calls_count>>
    /\ UNCHANGED sessVars
    /\ UNCHANGED httpVars

\* parse_extracted_details on the completed details, then the id and append.
ParseTraveler ==
    /\ bk.pc = "T_PARSE"
    /\ llm_calls_count' = llm_calls_count + 1
    /\ \E r \in ParseOutcomes :
          bk' = Invoked(
                IF r = "nonobject" THEN Raised(bk, "traveler")
                ELSE AfterTraveler(AppendTraveler(bk, bk.extracted_details)),
                1)
    /\ UNCHANGED <<tour, environ, vendor_calls, console_reads>>
    /\ UNCHANGED sessVars
    /\ UNCHANGED httpVars

\* One line at "Do you want to add another traveler? (yes/no)".
AnswerAddMore ==
    /\ bk.pc = "ADD_MORE"
    /\ console_reads < MaxConsole
    /\ console_reads' = console_reads + 1
    /\ \E line \in AddMoreLines :
          LET add_more == Lower(line)
          IN  IF add_more # <<"y", "e", "s">>
              THEN bk' = Assemble(bk)
              ELSE /\ Len(bk.travelers_details) < MaxTravelers
                   /\ bk' = [bk EXCEPT !.pc = "ADD_DETAILS"]
    /\ UNCHANGED <<tour, environ, vendor_calls, llm_calls_count>>
    /\ UNCHANGED sessVars
    /\ UNCHANGED httpVars

\* One line at "Enter additional traveler details".
AnswerAddDetails ==
    /\ bk.pc = "ADD_DETAILS"
    /\ console_reads < MaxConsole
    /\ console_reads' = console_reads + 1
    /\ \E line \in FreeLines :
          bk' = [bk EXCEPT !.pc = "TRAVELER_EXTRACT",
                           !.traveler_input = IF line = <<>> THEN "" ELSE "typed"]
    /\ UNCHANGED <<tour, environ, vendor_calls, llm_calls_count>>
    /\ UNCHANGED sessVars
    /\ UNCHANGED httpVars

\* --------------------------------------------------------------- the legs
\* not client_id or not client_secret
CredentialsMissing ==
    Falsy(environ.AMADEUS_CLIENT_ID) \/ Falsy(environ.AMADEUS_CLIENT_SECRET)

MissingCredentialsError == "Missing credentials for Amadeus API."

\* A leg result that is an error mapping carrying the leg's counters.
LegError(error, calls, success) ==
    [error |-> error, calls |-> calls, success |-> success, order |-> FALSE]

\* An order whose last successful request was not counted.
LegOrderLastUncounted(calls, success) ==
    [error |-> None, calls |-> calls, success |-> success - 1, order |-> TRUE]

\* The vendor's order, with the leg's counters added to it.
LegOrder(calls, success) ==
    [error |-> None, calls |-> calls, success |-> success, order |-> TRUE]

\* preferred_flight and preferred_hotel are locals of their leg: the next
\* leg starts without them.
Returned(b) == [b EXCEPT !.preferred = 0, !.entry = <<>>]

\* int() is reached only for a line str.isdigit accepted (`or` stops at
\* the first true operand) and is in no try block.
SelectionRaises(line) == IsDigit(line) /\ IntRaises(line)

\* The default-to-first rule of both selection prompts.
Preferred(line, listed) ==
    IF ~IsDigit(line) \/ ToInt(line) < 1 \/ ToInt(line) > listed
    THEN 1
    ELSE ToInt(line)

\* What the token and search requests of a leg can come to.
SearchOutcomes ==
    {[kind |-> k, listed |-> 0] :
        k \in {"token_failed", "token_malformed", "search_failed",
               "nothing_found", "search_malformed"}}
    \cup {[kind |-> "listed", listed |-> n] : n \in 1..MaxOffers}

\* What the requests after the selection can come to.
FlightOrderOutcomes == {"pricing_failed", "nothing_priced", "order_failed", "ordered"}

HotelOrderOutcomes == {"order_failed", "ordered"}

\* _run up to input() or its return.
RunFlight ==
    /\ bk.pc = "FLIGHT"
    /\ IF CredentialsMissing
       THEN /\ bk' = [bk EXCEPT !.pc = "HOTEL",
                                !.flight_booking_result =
                                    [NoLegResult EXCEPT !.error = MissingCredentialsError]]
            /\ UNCHANGED vendor_calls
       ELSE \E o \in SearchOutcomes :
              /\ vendor_calls' = vendor_calls + (IF o.kind \in {"token_failed", "token_malformed"} THEN 1 ELSE 2)
              /\ bk' = CASE o.kind = "token_failed" ->
                              [bk EXCEPT !.pc = "HOTEL",
                                         !.flight_booking_result = LegError("RequestException", 1, 0)]
                         [] o.kind = "search_failed" ->
                              [bk EXCEPT !.pc = "HOTEL",
                                         !.flight_booking_result = LegError("RequestException", 2, 1)]
                         [] o.kind = "nothing_found" ->
                              [bk EXCEPT !.pc = "HOTEL",
                                         !.flight_booking_result = LegError("No flight offers found.", 2, 2)]
                         [] o.kind = "listed" ->
                              [bk EXCEPT !.pc = "FLIGHT_INPUT", !.offers = o.listed]
                         [] OTHER -> Raised(bk, "flight")
    /\ UNCHANGED <<tour, environ, llm_calls_count, console_reads>>
    /\ UNCHANGED sessVars
    /\ UNCHANGED httpVars

\* One line at "Enter the number of your preferred flight", then pricing
\* and the order.
AnswerFlightChoice ==
    /\ bk.pc = "FLIGHT_INPUT"
    /\ console_reads < MaxConsole
    /\ console_reads' = console_reads + 1
    /\ \E line \in ChoiceLines, o \in FlightOrderOutcomes :
          IF SelectionRaises(line)
          THEN /\ bk' = Raised([bk EXCEPT !.offers = 0, !.entry = line], "flight")
               /\ UNCHANGED vendor_calls
          ELSE /\ vendor_calls' = vendor_calls + (IF o \in {"pricing_failed", "nothing_priced"} THEN 1 ELSE 2)
               /\ bk' = [bk EXCEPT
                            !.pc = "HOTEL",
                            !.offers = 0,
                            !.entry = line,
                            !.preferred = Preferred(line, bk.offers),
                            !.flight_booking_result =
                                CASE o = "pricing_failed" -> LegError("RequestException", 3, 2)
                                  [] o = "nothing_priced" -> LegError("No priced flight offers found.", 3, 3)
                                  [] o = "order_failed" -> LegError("RequestException", 4, 3)
                                  [] OTHER -> LegOrder(4, 4)]
    /\ UNCHANGED <<tour, environ, llm_calls_count>>
    /\ UNCHANGED sessVars
    /\ UNCHANGED httpVars

\* What the hotel leg's token, by-city and offers requests can come to.
HotelSearchOutcomes ==
    {[kind |-> k, listed |-> 0] :
        k \in {"token_failed", "token_malformed", "search_failed", "nothing_found",
               "pricing_failed", "nothing_priced", "pricing_malformed"}}
    \cup {[kind |-> "listed", listed |-> n] : n \in 1..MaxOffers}

\* sorted(hotels, ...)[:5]
MaxListedHotels == 5

\* _run_hotel_booking up to input() or its return.
RunHotel ==
    /\ bk.pc = "HOTEL"
    /\ IF CredentialsMissing
       THEN /\ bk' = [Returned(bk) EXCEPT !.pc = "ITINERARY",
                                !.hotel_booking_result =
                                    [NoLegResult EXCEPT !.error = MissingCredentialsError]]
            /\ UNCHANGED vendor_calls
       ELSE \E o \in HotelSearchOutcomes :
              /\ vendor_calls' = vendor_calls +
                    (CASE o.kind \in {"token_failed", "token_malformed"} -> 1
                       [] o.kind \in {"search_failed", "nothing_found"} -> 2
                       [] OTHER -> 3)
              /\ bk' = CASE o.kind = "token_failed" ->
                              [Returned(bk) EXCEPT !.pc = "ITINERARY",
                                         !.hotel_booking_result = LegError("RequestException", 1, 0)]
                         [] o.kind = "search_failed" ->
                              [Returned(bk) EXCEPT !.pc = "ITINERARY",
                                         !.hotel_booking_result = LegError("RequestException", 2, 1)]
                         [] o.kind = "nothing_found" ->
                              [Returned(bk) EXCEPT !.pc = "ITINERARY",
                                         !.hotel_booking_result = LegError("No hotels found.", 2, 2)]
                         [] o.kind = "pricing_failed" ->
                              [Returned(bk) EXCEPT !.pc = "ITINERARY",
                                         !.hotel_booking_result = LegError("RequestException", 3, 2)]
                         [] o.kind = "nothing_priced" ->
                              [Returned(bk) EXCEPT !.pc = "ITINERARY",
                                         !.hotel_booking_result = LegError("No priced hotel offers found.", 3, 3)]
                         [] o.kind = "listed" ->
                              [Returned(bk) EXCEPT !.pc = "HOTEL_INPUT",
                                         !.offers = Min(o.listed, MaxListedHotels)]
                         [] OTHER -> Raised(Returned(bk), "hotel")
    /\ UNCHANGED <<tour, environ, llm_calls_count, console_reads>>
    /\ UNCHANGED sessVars
    /\ UNCHANGED httpVars

\* guest_reference(traveler) subscripts every detail of the traveler.
GuestReferenceRaises(traveler) ==
    \/ "gender" \notin DOMAIN traveler
    \/ Falsy(Get(traveler, "name", None))
    \/ "emailAddress" \notin DOMAIN traveler
    \/ Falsy(Get(traveler, "phones", None))

\* One line at "Enter the number of your preferred hotel", then the guest
\* list and the order.
AnswerHotelChoice ==
    /\ bk.pc = "HOTEL_INPUT"
    /\ console_reads < MaxConsole
    /\ console_reads' = console_reads + 1
    /\ \E line \in ChoiceLines, o \in HotelOrderOutcomes :
          LET chosen == [bk EXCEPT !.offers = 0,
                                   !.entry = line,
                                   !.preferred = IF SelectionRaises(line)
                                                 THEN 0
                                                 ELSE Preferred(line, bk.offers)]
          IN  IF \/ SelectionRaises(line)
                 \/ \E i \in 1..Len(bk.travelers_details) :
                       GuestReferenceRaises(bk.travelers_details[i])
              THEN /\ bk' = Raised(chosen, "hotel")
                   /\ UNCHANGED vendor_calls
              ELSE /\ vendor_calls' = vendor_calls + 1
                   /\ bk' = [chosen EXCEPT
                                !.pc = "ITINERARY",
                                !.hotel_booking_result =
                                    IF o = "order_failed"
                                    THEN LegError("RequestException", 4, 3)
                                    ELSE LegOrder(4, 4)]
    /\ UNCHANGED <<tour, environ, llm_calls_count>>
    /\ UNCHANGED sessVars
    /\ UNCHANGED httpVars

\* What the itinerary leg's token, cities and activities requests come to.
ItineraryOutcomes ==
    {"token_failed", "coords_failed", "no_coords", "activities_failed", "activities"}

\* Lines 752-767: the leg's local counters after its requests; the token
\* request is not counted.
ItineraryCounters(o) ==
    CASE o = "token_failed" -> [calls |-> 0, success |-> 0]
      [] o = "coords_failed" -> [calls |-> 1, success |-> 0]
      [] o = "no_coords" -> [calls |-> 1, success |-> 1]
      [] o = "activities_failed" -> [calls |-> 2, success |-> 1]
      [] OTHER -> [calls |-> 2, success |-> 2]

\* `data` is assigned only after a lookup that did not raise (759, 769,
\* 771); the prompt of line 784 reads it, and with `data` unbound the read
\* raises inside the outer try block before the LLM is called.
DataAssigned(o) == o \in {"no_coords", "activities"}

\* The value _run_itinerary returns: response.content (815), or '' after
\* any exception inside its try block (816-818).
ItineraryReturn(o, answered) ==
    IF DataAssigned(o) /\ answered THEN "itinerary" ELSE ""

\* _run_itinerary, then the summary and the return of initiate_bookings.
RunItinerary ==
    /\ bk.pc = "ITINERARY"
    /\ IF CredentialsMissing
       THEN /\ bk' = Raised(Returned(bk), "itinerary")
            /\ UNCHANGED <<vendor_calls, llm_calls_count>>
       ELSE \E o \in ItineraryOutcomes, answered \in BOOLEAN :
              /\ vendor_calls' = vendor_calls +
                    (CASE o = "token_failed" -> 1
                       [] o \in {"coords_failed", "no_coords"} -> 2
                       [] OTHER -> 3)
              /\ llm_calls_count' = llm_calls_count + 1
              /\ bk' = Invoked(
                       [Returned(bk) EXCEPT
                           !.pc = "RETURNED",
                           !.itinerary_result = ItineraryReturn(o, answered),
                           !.itinerary_lookup = o,
                           !.itinerary_asked = DataAssigned(o),
                           !.itinerary_api_calls = ItineraryCounters(o).calls,
                           !.itinerary_api_success = ItineraryCounters(o).success],
                       IF DataAssigned(o) THEN 2 ELSE 1)
    /\ UNCHANGED <<tour, environ, console_reads>>
    /\ UNCHANGED sessVars
    /\ UNCHANGED httpVars

NextBooking ==
    \/ ExtractFlightParameters
    \/ AnswerParameterPrompt
    \/ ExtractTraveler
    \/ AnswerTravelerPrompt
    \/ ParseTraveler
    \/ AnswerAddMore
    \/ AnswerAddDetails
    \/ RunFlight
    \/ AnswerFlightChoice
    \/ RunHotel
    \/ AnswerHotelChoice
    \/ RunItinerary

SpecBooking == InitBooking /\ [][NextBooking]_vars

\* A call of initiate_bookings in a process that has served calls before:
\* the module-level counter holds what those calls left in it.
InitProcess ==
    /\ sess = [pc |-> "NONE"]
    /\ trav = [pc |-> "NONE"]
    /\ user_input = [isNone |-> TRUE, text |-> <<>>]
    /\ sends = 0
    /\ idle = 0
    /\ twice = [run |-> 0]
    /\ \E query \in Queries, interactive_mode \in BOOLEAN, use_real_api \in BOOLEAN :
          bk = NewBooking(query, interactive_mode, use_real_api)
    /\ tour = [pc |-> "NONE"]
    /\ environ \in Environs
    /\ llm_calls_count \in 0..MaxEarlierCalls
    /\ vendor_calls = 0
    /\ console_reads = 0
    /\ NoHttp

SpecProcess == InitProcess /\ [][NextBooking]_vars

\* ======================================================================
\* app/main.py: the HTTP surface.  /initiate_bookings stores the generator
\* that initiate_bookings returns under a fresh session id and runs it to
\* its first yield; /continue_booking sends one value to a stored generator.
\* ======================================================================

\* The session ids a request can carry; uuid4 is taken to give a fresh id
\* at every start, numbered here in the order of issue.
SessionIds == 1..MaxStarts

\* The required fields the stored generator collects.
HttpRequired == <<"originLocationCode", "destinationLocationCode">>

\* What the one-shot extraction of a stored generator can come to: it gives
\* none, the first or all of the required fields, or no object at all.
HttpOneShotOutcomes ==
    {[kind |-> k, obj |-> <<>>] : k \in {"raise", "malformed", "nonobject"}}
    \cup {[kind |-> "object",
           obj |-> [k \in {HttpRequired[i] : i \in 1..n} |-> "JFK"]] :
             n \in 0..Len(HttpRequired)}

\* The user_input member of a request body: null (the default), the empty
\* string, a blank and a text.
HttpUserInputs ==
    {[isNone |-> TRUE, text |-> <<>>]}
    \cup {[isNone |-> FALSE, text |-> t] : t \in {<<>>, <<" ">>, <<"a">>}}

\* The generator object that initiate_bookings(...) returns: it delegates
\* to the parameter-collection session for the required fields.
BookingGenerator(interactive_mode) == NewSession(HttpRequired, interactive_mode)

\* A generator that has returned or raised is closed.
Closed(g) == g.pc \in {"COMPLETE", "RAISED"}

\* next(result)
GeneratorNext(g, r) == SessionStart(g, r)

\* function.send(user_input); on a closed generator send raises
\* StopIteration with no value and the generator stays as it is.
GeneratorSend(g, v, r) == IF Closed(g) THEN g ELSE SessionSend(g, v, r)

\* {"session_id": ..., "content": text, "type": type}
Yielded(id, g) ==
    [status |-> 200, session_id |-> id, type |-> g.emitted.type,
     content |-> g.emitted.param, done |-> FALSE, detail |-> ""]

\* {"session_id": ..., "type": "message", "content": text, "done": True}
Done(id) ==
    [status |-> 200, session_id |-> id, type |-> "message",
     content |-> "complete_summary", done |-> TRUE, detail |-> ""]

\* HTTPException(status_code=..., detail=...)
HttpError(status, detail) ==
    [status |-> status, session_id |-> 0, type |-> "", content |-> "",
     done |-> FALSE, detail |-> detail]

\* del SESSIONS[session_id]
Without(table, id) == [k \in DOMAIN table \ {id} |-> table[k]]

\* SESSIONS[session_id] = result
With(table, id, g) ==
    [k \in DOMAIN table \cup {id} |-> IF k = id THEN g ELSE table[k]]

\* A start that keeps only the session it has just created.
StartResultEvicts(table, id, g) ==
    IF Suspended(g) THEN [SESSIONS |-> With(<<>>, id, g), response |-> Yielded(id, g)]
    ELSE IF g.pc = "COMPLETE" THEN [SESSIONS |-> <<>>, response |-> Done(id)]
    ELSE [SESSIONS |-> With(<<>>, id, g), response |-> HttpError(500, "error")]

\* The body of initiate_bookings_endpoint once the generator g, stored under
\* id, has run to its first yield, its return or an exception.
StartResult(table, id, g) ==
    IF Suspended(g)
    THEN [SESSIONS |-> With(table, id, g), response |-> Yielded(id, g)]
    ELSE IF g.pc = "COMPLETE"
    THEN [SESSIONS |-> Without(With(table, id, g), id), response |-> Done(id)]
    ELSE [SESSIONS |-> With(table, id, g), response |-> HttpError(500, "error")]

\* The try block of continue_booking for a session id that is in the table.
ContinueKnown(table, id, v, r) ==
    LET function == table[id]
        g == GeneratorSend(function, v, r)
    IN  IF Closed(function)
        THEN [SESSIONS |-> table, response |-> HttpError(500, "error")]
        ELSE IF Suspended(g)
        THEN [SESSIONS |-> With(table, id, g), response |-> Yielded(id, g)]
        ELSE IF g.pc = "COMPLETE"
        THEN [SESSIONS |-> Without(table, id), response |-> Done(id)]
        ELSE [SESSIONS |-> Without(table, id), response |-> HttpError(500, "error")]

\* A handler that looks the session up without the membership test.
ContinueResultUnchecked(table, id, v, r) ==
    IF id \notin DOMAIN table
    THEN [SESSIONS |-> table, response |-> HttpError(500, "error")]
    ELSE ContinueKnown(table, id, v, r)

\* The body of continue_booking.
ContinueResult(table, id, v, r) ==
    IF id \notin DOMAIN table
    THEN [SESSIONS |-> table, response |-> HttpError(400, "Invalid session_id")]
    ELSE ContinueKnown(table, id, v, r)

InitHttp ==
    /\ sess = [pc |-> "NONE"]
    /\ trav = [pc |-> "NONE"]
    /\ user_input = [isNone |-> TRUE, text |-> <<>>]
    /\ sends = 0
    /\ idle = 0
    /\ twice = [run |-> 0]
    /\ NoBooking
    /\ NoHttp

\* POST /initiate_bookings
StartRequest ==
    /\ issued < MaxStarts
    /\ \E interactive_mode \in BOOLEAN, r \in HttpOneShotOutcomes :
          LET session_id == issued + 1
              result == GeneratorNext(BookingGenerator(interactive_mode), r)
              out == StartResult(SESSIONS, session_id, result)
          IN  /\ issued' = session_id
              /\ request' = [kind |-> "initiate", session_id |-> 0]
              /\ SESSIONS' = out.SESSIONS
              /\ response' = out.response
    /\ UNCHANGED <<continues, workers, heap, gi_running>>
    /\ UNCHANGED sessVars
    /\ UNCHANGED bookVars

\* POST /continue_booking
ContinueRequest ==
    /\ continues < MaxContinues
    /\ continues' = continues + 1
    /\ \E session_id \in SessionIds, v \in HttpUserInputs, r \in SingleOutcomes :
          LET out == ContinueResult(SESSIONS, session_id, v, r)
          IN  /\ request' = [kind |-> "continue", session_id |-> session_id]
              /\ SESSIONS' = out.SESSIONS
              /\ response' = out.response
    /\ UNCHANGED <<issued, workers, heap, gi_running>>
    /\ UNCHANGED sessVars
    /\ UNCHANGED bookVars

NextHttp == StartRequest \/ ContinueRequest

SpecHttp == InitHttp /\ [][NextHttp]_vars

\* ======================================================================
\* app/main.py under the server's thread pool.  Both handlers are plain
\* `def` functions, which the framework runs on worker threads, so two
\* /continue_booking requests are handled line by line side by side.
\* ======================================================================
Threads == {1, 2}

IdleWorker ==
    [pc |-> "idle", session_id |-> 0,
     user_input |-> [isNone |-> TRUE, text |-> <<>>]]

\* An exception that leaves the handler is answered by the framework.
Unhandled == HttpError(500, "Internal Server Error")

\* The table entry and the object it refers to are one object.
Stored(table, id, g) == IF id \in DOMAIN table THEN With(table, id, g) ELSE table

\* The state after one /initiate_bookings request was answered with the
\* first prompt of an interactive session.
InitThreads ==
    /\ sess = [pc |-> "NONE"]
    /\ trav = [pc |-> "NONE"]
    /\ user_input = [isNone |-> TRUE, text |-> <<>>]
    /\ sends = 0
    /\ idle = 0
    /\ twice = [run |-> 0]
    /\ NoBooking
    /\ \E r \in HttpOneShotOutcomes :
          LET result == GeneratorNext(BookingGenerator(TRUE), r)
              out == StartResult(<<>>, 1, result)
          IN  /\ Suspended(result)
              /\ SESSIONS = out.SESSIONS
              /\ response = out.response
              /\ heap = With(<<>>, 1, result)
    /\ request = [kind |-> "initiate", session_id |-> 0]
    /\ issued = 1
    /\ continues = 0
    /\ workers = [t \in Threads |-> IdleWorker]
    /\ gi_running = {}

\* Lines 67-71: the request body is read and the id is tested.
Receive(t) ==
    /\ workers[t].pc = "idle"
    /\ continues < MaxContinues
    /\ continues' = continues + 1
    /\ \E session_id \in SessionIds, v \in HttpUserInputs :
          /\ request' = [kind |-> "continue", session_id |-> session_id]
          /\ IF session_id \notin DOMAIN SESSIONS
             THEN /\ response' = HttpError(400, "Invalid session_id")
                  /\ UNCHANGED workers
             ELSE /\ workers' = [workers EXCEPT ![t] =
                                    [pc |-> "lookup", session_id |-> session_id,
                                     user_input |-> v]]
                  /\ UNCHANGED response
    /\ UNCHANGED <<SESSIONS, issued, heap, gi_running>>
    /\ UNCHANGED sessVars
    /\ UNCHANGED bookVars

\* Line 73: function = SESSIONS[session_id], outside the try block.
Lookup(t) ==
    /\ workers[t].pc = "lookup"
    /\ IF workers[t].session_id \in DOMAIN SESSIONS
       THEN /\ workers' = [workers EXCEPT ![t].pc = "send"]
            /\ UNCHANGED response
       ELSE /\ workers' = [workers EXCEPT ![t] = IdleWorker]
            /\ response' = Unhandled
    /\ UNCHANGED <<SESSIONS, request, issued, continues, heap, gi_running>>
    /\ UNCHANGED sessVars
    /\ UNCHANGED bookVars

\* Line 77, entering function.send: a generator that is executing raises
\* ValueError, a closed one raises StopIteration without a value, whose
\* .get at line 85 raises out of the handler.
SendBegin(t) ==
    /\ workers[t].pc = "send"
    /\ LET id == workers[t].session_id
       IN  IF id \in gi_running
           THEN /\ workers' = [workers EXCEPT ![t].pc = "except_exception"]
                /\ UNCHANGED <<response, gi_running>>
           ELSE IF Closed(heap[id])
           THEN /\ workers' = [workers EXCEPT ![t] = IdleWorker]
                /\ response' = Unhandled
                /\ UNCHANGED gi_running
           ELSE /\ workers' = [workers EXCEPT ![t].pc = "in_generator"]
                /\ gi_running' = gi_running \cup {id}
                /\ UNCHANGED response
    /\ UNCHANGED <<SESSIONS, request, issued, continues, heap>>
    /\ UNCHANGED sessVars
    /\ UNCHANGED bookVars

\* Line 77, leaving function.send at the generator's next yield, its
\* return or an exception; a yield is answered at lines 78-80.
SendEnd(t) ==
    /\ workers[t].pc = "in_generator"
    /\ \E r \in SingleOutcomes :
          LET id == workers[t].session_id
              g == GeneratorSend(heap[id], workers[t].user_input, r)
          IN  /\ heap' = With(heap, id, g)
              /\ SESSIONS' = Stored(SESSIONS, id, g)
              /\ gi_running' = gi_running \ {id}
              /\ IF Suspended(g)
                 THEN /\ workers' = [workers EXCEPT ![t] = IdleWorker]
                      /\ response' = Yielded(id, g)
                 ELSE /\ workers' = [workers EXCEPT ![t].pc =
                                        IF g.pc = "COMPLETE" THEN "stop_iteration"
                                        ELSE "except_exception"]
                      /\ UNCHANGED response
    /\ UNCHANGED <<request, issued, continues>>
    /\ UNCHANGED sessVars
    /\ UNCHANGED bookVars

\* Lines 82-88: del SESSIONS[session_id] after the generator returned; a
\* KeyError here is raised inside the except clause and leaves the handler.
DeleteAfterReturn(t) ==
    /\ workers[t].pc = "stop_iteration"
    /\ LET id == workers[t].session_id
       IN  IF id \in DOMAIN SESSIONS
           THEN /\ SESSIONS' = Without(SESSIONS, id)
                /\ response' = Done(id)
           ELSE /\ response' = Unhandled
                /\ UNCHANGED SESSIONS
    /\ workers' = [workers EXCEPT ![t] = IdleWorker]
    /\ UNCHANGED <<request, issued, continues, heap, gi_running>>
    /\ UNCHANGED sessVars
    /\ UNCHANGED bookVars

\* Lines 89-92: del SESSIONS[session_id] after any other exception.
DeleteAfterError(t) ==
    /\ workers[t].pc = "except_exception"
    /\ LET id == workers[t].session_id
       IN  IF id \in DOMAIN SESSIONS
           THEN /\ SESSIONS' = Without(SESSIONS, id)
                /\ response' = HttpError(500, "error")
           ELSE /\ response' = Unhandled
                /\ UNCHANGED SESSIONS
    /\ workers' = [workers EXCEPT ![t] = IdleWorker]
    /\ UNCHANGED <<request, issued, continues, heap, gi_running>>
    /\ UNCHANGED sessVars
    /\ UNCHANGED bookVars

NextThreads ==
    \E t \in Threads :
        \/ Receive(t)
        \/ Lookup(t)
        \/ SendBegin(t)
        \/ SendEnd(t)
        \/ DeleteAfterReturn(t)
        \/ DeleteAfterError(t)

SpecThreads == InitThreads /\ [][NextThreads]_vars

\* ======================================================================
\* app/core/helpers.py: extract_traveler_details, the generator that
\* extracts the travelers of a text and asks for every detail it lacks.
\* ======================================================================

\* The value of one detail of a traveler: what the LLM's JSON gave (absent,
\* null and '' are one falsy case; "partial" is a name mapping or a phone
\* entry with a falsy member) or what the user typed at a prompt.
NullValue == [kind |-> "null", text |-> <<>>]

LlmValue == [kind |-> "llm", text |-> <<>>]

PartialValue == [kind |-> "partial", text |-> <<>>]

UserValue(text) == [kind |-> "user", text |-> text]

\* The tests of lines 341, 351, 367, 379 and 392 on a value of the LLM.
Lacks(value) == value.kind # "llm"

\* The travelers the LLM can describe: any detail may be lacking, a name or
\* a phone entry may be partial.
DetailShapes ==
    {d \in [TravelerFieldSet -> {NullValue, PartialValue, LlmValue}] :
        \A k \in {"dateOfBirth", "gender", "emailAddress"} : d[k] # PartialValue}

\* {} : a traveler of whom nothing is known.
NoDetails == [k \in TravelerFieldSet |-> NullValue]

\* The travelers of a list of several: they lack at most a gender and an
\* email address.
ListedShapes ==
    {d \in DetailShapes :
        \A k \in {"name", "dateOfBirth", "phones"} : d[k] = LlmValue}

\* Lists of at most MaxParty travelers; lists of one take every shape.
DetailLists ==
    {<<d>> : d \in DetailShapes}
    \cup UNION {[1..n -> ListedShapes] : n \in (0..MaxParty) \ {1}}

\* What chain.invoke and json.loads of lines 314-315 can come to.
DetailsOutcomes ==
    {[kind |-> k, list |-> <<>>] : k \in {"raise", "malformed", "scalar"}}
    \cup {[kind |-> "object", list |-> <<d>>] : d \in DetailShapes}
    \cup {[kind |-> "list", list |-> l] : l \in DetailLists}

\* What parse_traveler_details can come to: its own try block returns the
\* details as they are when the call or the JSON fails.
DetailsParseOutcomes == {"parsed", "failed"}

\* The text of the five prompts, in the order of the five loops.
PromptTexts ==
    <<"Enter full name (First Last): ", "Enter date of birth: ",
      "Enter gender: ", "Enter email address: ",
      "Enter phone number (with country code): ">>

\* Lines a user can type at the email prompt: with and without '@' and
\* '.', with blanks around.
TypedEmails ==
    {<<>>, <<" ">>, <<"a">>, <<"a", "@">>, <<"a", ".">>, <<"@", ".">>,
     <<"a", "@", "a", ".">>, <<" ", "a", "@", ".", " ">>}

\* Lines a user can type at the other prompts.
TypedTexts ==
    {<<>>, <<" ">>, <<"a">>, <<" ", "a", " ">>, <<"a", " ", "a">>, <<"1", "2">>}

\* The answers a user can give at a prompt: nothing, or a line of text.
DetailAnswers(phase) ==
    {[isNone |-> TRUE, text |-> <<>>]}
    \cup {[isNone |-> FALSE, text |-> t] :
            t \in IF TravelerFields[phase] = "emailAddress"
                  THEN TypedEmails ELSE TypedTexts}

\* str.split(): the maximal runs of non-blank characters.
Split(s) ==
    LET RECURSIVE Runs(_, _, _)
        Runs(rest, run, acc) ==
            IF rest = <<>>
            THEN IF run = <<>> THEN acc ELSE Append(acc, run)
            ELSE IF Head(rest) = " "
            THEN Runs(Tail(rest), <<>>, IF run = <<>> THEN acc ELSE Append(acc, run))
            ELSE Runs(Tail(rest), Append(run, Head(rest)), acc)
    IN  Runs(s, <<>>, <<>>)

\* ' '.join(parts)
Join(parts) ==
    LET RECURSIVE Glue(_)
        Glue(ps) ==
            IF ps = <<>> THEN <<>>
            ELSE IF Len(ps) = 1 THEN ps[1]
            ELSE ps[1] \o <<" ">> \o Glue(Tail(ps))
    IN  Glue(parts)

\* str.upper()
Upper(s) == [i \in 1..Len(s) |-> IF s[i] = "a" THEN "A" ELSE s[i]]

\* ''.join(filter(str.isdigit, s))
OnlyDigits(s) ==
    LET RECURSIVE Keep(_)
        Keep(rest) ==
            IF rest = <<>> THEN <<>>
            ELSE IF IsDigit(<<Head(rest)>>) THEN <<Head(rest)>> \o Keep(Tail(rest))
            ELSE Keep(Tail(rest))
    IN  Keep(s)

\* Lines 395-406: the phone entry made of a typed phone number.
PhoneEntry(phone) ==
    LET n == Len(phone)
        country_code == IF n > 10 THEN OnlyDigits(SubSeq(phone, 1, n - 10))
                        ELSE <<"1">>
        number == OnlyDigits(SubSeq(phone, IF n > 10 THEN n - 9 ELSE 1, n))
    IN  <<country_code, number>>

\* A validator that looks for the '@' only.
ValidatorAtOnly(phase, text) ==
    TravelerFields[phase] = "emailAddress" => Contains(text, "@")

\* validator is None or validator(user_input): only the email prompt has a
\* validator, lambda e: '@' in e and '.' in e.
Validator(phase, text) ==
    TravelerFields[phase] = "emailAddress"
        => (Contains(text, "@") /\ Contains(text, "."))

\* A generator object that has not run yet.
NewDetails(has_input, interactive_mode) ==
    [pc |-> "CREATED",
     has_input |-> has_input,
     interactive_mode |-> interactive_mode,
     all_extracted_details |-> <<>>,
     is_list |-> FALSE,
     returned |-> "nothing",
     llm_calls_count |-> 0,
     phase |-> 1,
     index |-> 1,
     emitted |-> ""]

\* The five loops of lines 340-406 resumed at traveler `index` of loop
\* `phase`: the next traveler that lacks the detail of a loop is asked for
\* it; after the last loop the details are parsed and returned (411-414).
ScanDetails(t, phase, index, q) ==
    LET n == Len(t.all_extracted_details)
        ahead == {pi \in (1..Len(TravelerFields)) \X (1..n) :
                    /\ pi[1] > phase \/ (pi[1] = phase /\ pi[2] >= index)
                    /\ Lacks(t.all_extracted_details[pi[2]][TravelerFields[pi[1]]])}
    IN  IF ahead = {}
        THEN [t EXCEPT !.pc = "COMPLETE",
                       !.phase = Len(TravelerFields) + 1, !.index = 1,
                       !.emitted = "",
                       !.llm_calls_count = @ + 1,
                       !.returned = IF q = "parsed" THEN "parsed" ELSE "collected"]
        ELSE LET pi == CHOOSE a \in ahead :
                          \A b \in ahead :
                              a[1] < b[1] \/ (a[1] = b[1] /\ a[2] <= b[2])
             IN  [t EXCEPT !.pc = "AWAITING_INPUT",
                           !.phase = pi[1], !.index = pi[2],
                           !.emitted = PromptTexts[pi[1]]]

\* The body of the generator up to its first yield or its return.
DetailsStart(t, r, q) ==
    LET called == [t EXCEPT !.llm_calls_count = IF t.has_input THEN 1 ELSE 0]
        failed == ~t.has_input \/ r.kind \in {"raise", "malformed"}
        got == [called EXCEPT
                   !.all_extracted_details = IF failed THEN <<NoDetails>> ELSE r.list,
                   !.is_list = ~failed /\ r.kind = "list"]
    IN  IF ~t.interactive_mode
        THEN [got EXCEPT !.pc = "COMPLETE",
                         !.returned = IF ~failed /\ r.kind = "scalar"
                                      THEN "scalar" ELSE "extracted"]
        ELSE IF ~failed /\ r.kind = "scalar"
        THEN [called EXCEPT !.pc = "RAISED"]
        ELSE ScanDetails(got, 1, 1, q)

\* The detail stored for the answer to the prompt of a loop.
Answered(phase, text) ==
    CASE TravelerFields[phase] = "name" ->
            LET name_parts == Split(text)
            IN  UserValue(<<Upper(name_parts[1]), Upper(Join(Tail(name_parts)))>>)
      [] TravelerFields[phase] = "phones" -> UserValue(PhoneEntry(text))
      [] OTHER -> UserValue(text)

\* The generator resumed inside validate_input (line 330) with value v.
DetailsSend(t, v, q) ==
    IF v.isNone
    THEN [t EXCEPT !.pc = "RAISED", !.emitted = ""]
    ELSE LET text == Strip(v.text)
             field == TravelerFields[t.phase]
         IN  IF ~Validator(t.phase, text)
             THEN t
             ELSE IF field = "name" /\ Split(text) = <<>>
             THEN [t EXCEPT !.pc = "RAISED", !.emitted = ""]
             ELSE ScanDetails(
                    [t EXCEPT !.all_extracted_details[t.index][field] =
                                  Answered(t.phase, text)],
                    t.phase, t.index + 1, q)

InitTraveler ==
    /\ sess = [pc |-> "NONE"]
    /\ \E has_input \in BOOLEAN, interactive_mode \in BOOLEAN :
          trav = NewDetails(has_input, interactive_mode)
    /\ user_input = [isNone |-> TRUE, text |-> <<>>]
    /\ sends = 0
    /\ idle = 0
    /\ twice = [run |-> 0]
    /\ NoBooking
    /\ NoHttp

\* next(gen)
StartDetails ==
    /\ trav.pc = "CREATED"
    /\ \E r \in DetailsOutcomes, q \in DetailsParseOutcomes :
          trav' = DetailsStart(trav, r, q)
    /\ UNCHANGED <<sess, twice, user_input, sends, idle>>
    /\ UNCHANGED bookVars
    /\ UNCHANGED httpVars

\* gen.send(user_input)
ResumeDetails ==
    /\ trav.pc = "AWAITING_INPUT"
    /\ sends < MaxSends
    /\ sends' = sends + 1
    /\ \E v \in DetailAnswers(trav.phase), q \in DetailsParseOutcomes :
          /\ user_input' = v
          /\ trav' = DetailsSend(trav, v, q)
    /\ UNCHANGED <<sess, twice, idle>>
    /\ UNCHANGED bookVars
    /\ UNCHANGED httpVars

NextTraveler == StartDetails \/ ResumeDetails

SpecTraveler == InitTraveler /\ [][NextTraveler]_vars

\* ======================================================================
\* app/core/helpers.py: extract_parameters_with_llm called twice with the
\* same query and schema, the same answers delivered to both generators,
\* and an extractor that gives the same output for the same input.
\* ======================================================================

\* The schemas of the two runs.
TwiceRequiredLists ==
    {<<>>, <<"originLocationCode">>,
     <<"originLocationCode", "destinationLocationCode">>}

\* What the extractor gives for the query.
TwiceOneShotOutcomes ==
    {[kind |-> k, obj |-> <<>>] : k \in {"raise", "malformed", "nonobject"}}
    \cup {[kind |-> "object", obj |-> o] :
            o \in UNION {[D -> {None, "JFK"}] :
                           D \in SUBSET {"originLocationCode",
                                         "destinationLocationCode"}}}

\* The prompts and messages a generator has yielded so far.
Emitted(prompts, s) == IF Suspended(s) THEN Append(prompts, s.emitted) ELSE prompts

\* A second run that takes the generator of the first run as it is.
SecondRunSameGenerator(s) == s

\* Calling extract_parameters_with_llm again makes a new generator; the
\* function has no state outside its frame (llm_calls_count is a local).
SecondRun(s) == NewSession(s.required, s.interactive_mode)

InitTwice ==
    /\ \E required \in TwiceRequiredLists, interactive_mode \in BOOLEAN :
          sess = NewSession(required, interactive_mode)
    /\ trav = [pc |-> "NONE"]
    /\ user_input = [isNone |-> TRUE, text |-> <<>>]
    /\ sends = 0
    /\ idle = 0
    /\ twice = [run |-> 1,
                one_shot |-> [kind |-> "none", obj |-> <<>>],
                single |-> <<>>,
                answers |-> <<>>,
                prompts |-> <<>>,
                first |-> [pc |-> "NONE", extracted_params |-> <<>>,
                           prompts |-> <<>>]]
    /\ NoBooking
    /\ NoHttp

\* next(gen): the extractor's output for the query is fixed by the first run.
StartRun ==
    /\ sess.pc = "CREATED"
    /\ \E r \in TwiceOneShotOutcomes :
          /\ twice.run = 2 => r = twice.one_shot
          /\ sess' = SessionStart(sess, r)
          /\ twice' = [twice EXCEPT !.one_shot = r,
                                    !.prompts = Emitted(<<>>, sess')]
    /\ UNCHANGED <<trav, user_input, sends, idle>>
    /\ UNCHANGED bookVars
    /\ UNCHANGED httpVars

\* gen.send(v): the first run takes any answer and records it, the second
\* run is given the recorded answers; the extractor's output for a field
\* and a text is fixed by its first call on them.
ResumeRun ==
    /\ Suspended(sess)
    /\ twice.run = 1 => sends < MaxAnswers
    /\ twice.run = 2 => sends < Len(twice.answers)
    /\ sends' = sends + 1
    /\ \E v \in HttpUserInputs, r \in SingleOutcomes :
          LET consulted == sess.pc = "AWAITING_INPUT" /\ ~v.isNone
              key == <<sess.required[sess.cursor], Strip(v.text)>>
          IN  /\ twice.run = 2 => v = twice.answers[sends + 1]
              /\ IF consulted /\ key \in DOMAIN twice.single
                 THEN r = twice.single[key]
                 ELSE consulted \/ r = [kind |-> "content", content |-> ""]
              /\ user_input' = v
              /\ sess' = SessionSend(sess, v, r)
              /\ twice' = [twice EXCEPT
                              !.single = IF consulted
                                         THEN [k \in DOMAIN @ \cup {key} |->
                                                  IF k = key THEN r ELSE @[k]]
                                         ELSE @,
                              !.answers = IF twice.run = 1 THEN Append(@, v) ELSE @,
                              !.prompts = Emitted(@, sess')]
    /\ UNCHANGED <<trav, idle>>
    /\ UNCHANGED bookVars
    /\ UNCHANGED httpVars

\* The first run is over (returned, raised, or left suspended by its user)
\* and the function is called again with the same arguments.
Rerun ==
    /\ twice.run = 1
    /\ sess.pc # "CREATED"
    /\ twice' = [twice EXCEPT
                    !.run = 2,
                    !.prompts = <<>>,
                    !.first = [pc |-> sess.pc,
                               extracted_params |-> sess.extracted_params,
                               prompts |-> twice.prompts]]
    /\ sess' = SecondRun(sess)
    /\ sends' = 0
    /\ user_input' = [isNone |-> TRUE, text |-> <<>>]
    /\ UNCHANGED <<trav, idle>>
    /\ UNCHANGED bookVars
    /\ UNCHANGED httpVars

NextTwice == StartRun \/ ResumeRun \/ Rerun

SpecTwice == InitTwice /\ [][NextTwice]_vars

\* ======================================================================
\* app/core/optimized_tools.py: find_optimal_path on a graph of build_graph
\* ======================================================================
\* Attractions are named by their position in the list build_graph was
\* given: the names are distinct, and every dict of the graph lists its
\* keys in that order.
Attractions(n) == 1..n

Pairs(n) == {p \in Attractions(n) \X Attractions(n) : p[1] < p[2]}

\* haversine is symmetric: one distance for each pair of attractions.
DistanceTables(n) == [Pairs(n) -> 0..MaxDistance]

\* build_graph: each attraction is mapped to its distance to every other.
build_graph(n, table) ==
    [a \in Attractions(n) |->
        [b \in Attractions(n) \ {a} |->
            IF a < b THEN table[<<a, b>>] ELSE table[<<b, a>>]]]

\* A choice that takes the first unvisited neighbour listed.
NearestFirstListed(row, neighbors) ==
    CHOOSE b \in neighbors : \A c \in neighbors : b <= c

\* min(neighbors, key=lambda x: x[1])[0]: the first of the neighbours at
\* the least distance, in the order the dict lists them.
Nearest(row, neighbors) ==
    LET least == {b \in neighbors : \A c \in neighbors : row[b] <= row[c]}
    IN  CHOOSE b \in least : \A c \in least : b <= c

\* [... for neighbor, distance in graph[current].items() if neighbor not in visited]
Unvisited(graph, current, visited) ==
    {b \in DOMAIN graph[current] : b \notin visited}

InitPath ==
    /\ sess = [pc |-> "NONE"]
    /\ trav = [pc |-> "NONE"]
    /\ user_input = [isNone |-> TRUE, text |-> <<>>]
    /\ sends = 0
    /\ idle = 0
    /\ twice = [run |-> 0]
    /\ bk = [pc |-> "NONE"]
    /\ environ = [AMADEUS_CLIENT_ID |-> None, AMADEUS_CLIENT_SECRET |-> None]
    /\ llm_calls_count = 0
    /\ vendor_calls = 0
    /\ console_reads = 0
    /\ NoHttp
    /\ \E n \in 1..MaxNodes :
          \E table \in DistanceTables(n), start \in Attractions(n) :
             tour = [pc |-> "LOOP",
                     graph |-> build_graph(n, table),
                     start |-> start,
                     visited |-> {},
                     path |-> <<start>>,
                     current |-> start]

\* One iteration of the while loop that appends a node (lines 61-66).
Visit ==
    /\ tour.pc = "LOOP"
    /\ Cardinality(tour.visited) < Cardinality(DOMAIN tour.graph)
    /\ LET visited == tour.visited \cup {tour.current}
           neighbors == Unvisited(tour.graph, tour.current, visited)
       IN  /\ neighbors # {}
           /\ LET next_node == Nearest(tour.graph[tour.current], neighbors)
              IN  tour' = [tour EXCEPT !.visited = visited,
                                       !.path = Append(@, next_node),
                                       !.current = next_node]
    /\ UNCHANGED <<bk, environ, llm_calls_count, vendor_calls, console_reads>>
    /\ UNCHANGED sessVars
    /\ UNCHANGED httpVars

\* The loop ends, by its condition or by `break` (lines 60, 63-64), and
\* the path is returned (line 68).
ReturnPath ==
    /\ tour.pc = "LOOP"
    /\ IF Cardinality(tour.visited) < Cardinality(DOMAIN tour.graph)
       THEN LET visited == tour.visited \cup {tour.current}
            IN  /\ Unvisited(tour.graph, tour.current, visited) = {}
                /\ tour' = [tour EXCEPT !.visited = visited, !.pc = "RETURNED"]
       ELSE tour' = [tour EXCEPT !.pc = "RETURNED"]
    /\ UNCHANGED <<bk, environ, llm_calls_count, vendor_calls, console_reads>>
    /\ UNCHANGED sessVars
    /\ UNCHANGED httpVars

NextPath == Visit \/ ReturnPath

\* The call runs on its own thread of control until it returns.
SpecPath == InitPath /\ [][NextPath]_vars /\ WF_vars(NextPath)

\* ------------------------------------------------- claims about the session
\* Validation policy for a required string: non-empty and not an empty marker.
ValidRequiredValue(v) == v # None /\ v # "" /\ v # EmptyMarker

\* Positions of the required list whose field is absent from the mapping.
MissingPositions(s) ==
    {j \in 1..Len(s.required) : s.required[j] \notin DOMAIN s.extracted_params}

\* The value just delivered by a resume of a session suspended on a prompt.
ResumedAtPromptWith(text) ==
    /\ sess.pc = "AWAITING_INPUT"
    /\ sends' = sends + 1
    /\ ~user_input'.isNone
    /\ user_input'.text = text

\* C1: when the interactive session returns, every required field is in the
\* returned mapping with a value that is non-empty and not an empty marker.
C1_CompleteHasValidRequired ==
    (sess.pc = "COMPLETE" /\ sess.interactive_mode) =>
        \A j \in 1..Len(sess.required) :
            /\ sess.required[j] \in DOMAIN sess.extracted_params
            /\ ValidRequiredValue(sess.extracted_params[sess.required[j]])

\* C3: a resume with the empty string leaves the prompted field unfilled and
\* does not take the session to COMPLETE.
C3_EmptyResumeNeverCompletes ==
    [][ResumedAtPromptWith(<<>>) =>
          /\ sess'.pc # "COMPLETE"
          /\ sess.required[sess.cursor] \notin DOMAIN sess'.extracted_params]_vars

\* C4: on a resume with an empty or whitespace-only string the extractor is
\* not invoked, nothing is stored for the field, and the session emits the
\* prompt for the same field again.
C4_BlankResumeSkipsExtractor ==
    [][(\E t \in Texts : Strip(t) = <<>> /\ ResumedAtPromptWith(t)) =>
          /\ sess'.invocations = sess.invocations
          /\ sess.required[sess.cursor] \notin DOMAIN sess'.extracted_params
          /\ sess'.pc = "AWAITING_INPUT"
          /\ sess'.emitted = sess.emitted]_vars

\* C5: whenever the session is suspended, the field it names is the first
\* required field, in declaration order, that is absent from the mapping; a
\* prompt carries that field's description.
C5_PromptsInDeclaredOrder ==
    Suspended(sess) =>
        /\ MissingPositions(sess) # {}
        /\ \E j \in MissingPositions(sess) :
              /\ \A k \in MissingPositions(sess) : j <= k
              /\ sess.emitted.param = sess.required[j]
              /\ sess.pc = "AWAITING_INPUT" =>
                    sess.emitted =
                        [type |-> "prompt", param |-> sess.required[j],
                         description |-> get_parameter_description(sess.required[j])]

\* A second prompt, for the second declared field, after the first declared
\* field was filled by a retry although the one-shot extraction gave none.
C5_Witness ==
    /\ sess.pc = "AWAITING_INPUT"
    /\ sess.cursor = 2
    /\ sends > 0
    /\ sess.required = <<"travelClass", "originLocationCode">>
    /\ sess.emitted.param = "originLocationCode"
    /\ sess.emitted.description # "No description available"

\* C6: the mapping the session returns, in either mode, holds no key whose
\* value is an explicit null.
C6_ReturnedMappingHasNoNull ==
    (sess.pc = "COMPLETE" /\ sess.is_mapping) =>
        \A k \in DOMAIN sess.extracted_params : sess.extracted_params[k] # None

\* C7: while the session is suspended its state (extractor calls, mapping,
\* position) changes only in a step that delivers exactly one value.
C7_SuspensionIsCooperative ==
    [][(Suspended(sess) /\ sess' # sess) => sends' = sends + 1]_vars

\* The session is suspended again after a resume, and the transport has been
\* idle since.
C7_Witness ==
    /\ Suspended(sess)
    /\ sends > 0
    /\ idle > 0
    /\ sess.invocations > 1

\* C11: in interactive mode no extraction call, the one-shot one or a
\* single-field retry, ends the session with an exception: a call that
\* fails or gives nothing usable leaves the session asking the user.
C11_ExtractionFailureNeverRaises ==
    [][(sess.interactive_mode /\ sess'.invocations = sess.invocations + 1)
          => sess'.pc # "RAISED"]_vars

\* C12: a one-shot output that is not JSON, or is JSON but not an object,
\* raises nothing and leaves every required field absent: the interactive
\* session prompts for the first required field (or returns when nothing is
\* required) and the batch session returns.
C12_MalformedIsNothingExtracted ==
    [][(/\ sess.pc = "CREATED"
        /\ (~sess'.is_mapping \/ sess'.extracted_params = DefaultParams))
          => /\ sess'.pc # "RAISED"
             /\ MissingPositions(sess') = 1..Len(sess.required)
             /\ IF sess.interactive_mode /\ sess.required # <<>>
                THEN sess'.pc = "AWAITING_INPUT" /\ sess'.cursor = 1
                ELSE sess'.pc = "COMPLETE"]_vars

\* C16: the count the session returns is the number of extraction calls it
\* made: one for the one-shot extraction and one for every value delivered
\* at a prompt (a value delivered after a failure message starts no call).
C16_CountEqualsExtractionCalls ==
    sess.pc = "COMPLETE" =>
        /\ sess.llm_calls_count = sess.invocations
        /\ sess.llm_calls_count = 1 + sends - sess.discarded

\* The session returned after a retry that failed, a resume of the failure
\* message and a retry that gave a value.
C16_Witness ==
    /\ sess.pc = "COMPLETE"
    /\ sess.interactive_mode
    /\ sess.discarded = 1
    /\ sess.llm_calls_count = 3

\* ------------------------------------------------- claims about the booking
LegPlaces == {"FLIGHT", "FLIGHT_INPUT", "HOTEL", "HOTEL_INPUT", "ITINERARY"}

\* C2: in batch mode a booking request never waits for a line of input,
\* from its start to its result: not for a parameter, not for a traveler
\* detail, and not inside the flight, hotel or itinerary leg.
C2_BatchNeverWaits ==
    ~bk.interactive_mode => bk.pc \notin ConsoleWaits

\* C8: in interactive mode a vendor request has been sent only when every
\* required flight parameter has a value in the mapping, the travelers have
\* been collected and the add-more loop has been left; and a one-shot
\* extraction that gives no origin stops at the prompt for
\* originLocationCode with no vendor request sent.
C8_NoVendorCallBeforeSessions ==
    /\ [](bk.interactive_mode /\ vendor_calls > 0 =>
            /\ FlightRequiredSet \subseteq DOMAIN bk.flight_params
            /\ Len(bk.travelers_details) >= 1
            /\ bk.pc \in LegPlaces \cup {"RETURNED", "RAISED"})
    /\ [][(/\ bk.pc = "START"
           /\ bk.interactive_mode
           /\ bk'.pc # "RAISED"
           /\ "originLocationCode" \notin DOMAIN bk'.flight_params)
          => /\ bk'.pc = "PARAM_INPUT"
             /\ FlightRequired[bk'.cursor] = "originLocationCode"
             /\ vendor_calls' = 0]_vars

\* The origin was asked for and answered, the travelers were collected, and
\* the flight leg has searched the vendor.
C8_Witness ==
    /\ bk.interactive_mode
    /\ bk.pc = "FLIGHT_INPUT"
    /\ bk.cursor = 1
    /\ console_reads >= 2
    /\ vendor_calls = 2

\* C9: a failure inside the flight, hotel or itinerary leg never leaves
\* initiate_bookings as an exception: whatever the legs' requests come to,
\* and whichever credential is missing, the call goes on to the other legs
\* and returns.
C9_LegFailureNeverAborts ==
    bk.pc = "RAISED" => bk.raised_at \notin {"flight", "hotel", "itinerary"}

\* C10: with a vendor credential missing no leg sends a request, the flight
\* and hotel results are the mapping whose error is "Missing credentials for
\* Amadeus API.", and the itinerary leg ends in an error value as well
\* instead of an exception.
C10_MissingCredentialsFailFast ==
    CredentialsMissing =>
        /\ vendor_calls = 0
        /\ bk.use_real_api /\ bk.pc \in {"HOTEL", "ITINERARY", "RETURNED"} =>
              bk.flight_booking_result.error = MissingCredentialsError
        /\ bk.use_real_api /\ bk.pc \in {"ITINERARY", "RETURNED"} =>
              bk.hotel_booking_result.error = MissingCredentialsError
        /\ ~(bk.pc = "RAISED" /\ bk.raised_at = "itinerary")

\* The requests of a flight or hotel leg: token, search, pricing, order.
RequestsOfLeg == 4

\* A leg result that carries the two counters: every return of a leg
\* except the one for missing credentials.
ReportsCounters(result) ==
    result.order \/ (result.error # None /\ result.error # MissingCredentialsError)

BareText(result) == result \in {"", "itinerary"}

\* C27: when the token, city and activities requests of the itinerary leg
\* all succeeded, the leg's result is a mapping with a travel_plan entry
\* that reports the leg's two counters, and the two are equal.
C27_ItineraryReportsPlanAndCounters ==
    (bk.pc = "RETURNED" /\ bk.itinerary_lookup = "activities")
        => /\ bk.itinerary_api_calls = bk.itinerary_api_success
           /\ IF BareText(bk.itinerary_result)
              THEN FALSE
              ELSE /\ "travel_plan" \in DOMAIN bk.itinerary_result
                   /\ bk.itinerary_result["_itinerary_api_calls"] = bk.itinerary_api_calls
                   /\ bk.itinerary_result["_itinerary_api_success"] = bk.itinerary_api_success

\* C30: when the city lookup or the activities lookup of the itinerary leg
\* raised after a successful token request, the leg still asks the LLM for an
\* itinerary, so that it returns an empty itinerary only when the LLM call
\* itself failed.
C30_LookupFailureStillPlans ==
    (bk.pc = "RETURNED" /\ bk.itinerary_lookup \in {"coords_failed", "activities_failed"})
        => (bk.itinerary_result = "" => bk.itinerary_asked)

\* The four fields of the request that default to the empty string.
DefaultedFields ==
    {"originLocationCode", "destinationLocationCode", "departureDate", "returnDate"}

\* The entry is a string of decimal digits.
DecimalEntry(line) ==
    line # <<>> /\ \A i \in 1..Len(line) : DigitValue(line[i]) >= 0

\* C31: the index selected at the flight prompt and at the hotel prompt is
\* always in 1..(offers listed); it is the number typed when the entry is
\* a digit string within that range, and 1 for every other entry.
C31_SelectionAmongListed ==
    [][(bk.pc \in {"FLIGHT_INPUT", "HOTEL_INPUT"} /\ bk'.pc # bk.pc)
          => LET line == bk'.entry
                 listed == bk.offers
                 within == DecimalEntry(line) /\ ToInt(line) \in 1..listed
             IN  /\ bk'.preferred \in 1..listed
                 /\ within => bk'.preferred = ToInt(line)
                 /\ ~within => bk'.preferred = 1]_vars

\* C34: on a complete distance graph over distinct names, with a start
\* node of the graph, find_optimal_path returns, and the path returned
\* begins at start, holds every node of the graph exactly once, and goes at
\* each step to a nearest node among those not yet on the path.
C34_PathVisitsAllNearestFirst ==
    /\ <>(tour.pc = "RETURNED")
    /\ [](tour.pc = "RETURNED"
            => LET path == tour.path
                   nodes == DOMAIN tour.graph
               IN  /\ path[1] = tour.start
                   /\ Len(path) = Cardinality(nodes)
                   /\ \A a \in nodes :
                         Cardinality({i \in 1..Len(path) : path[i] = a}) = 1
                   /\ \A i \in 1..(Len(path) - 1) :
                         \A b \in nodes \ {path[j] : j \in 1..i} :
                            tour.graph[path[i]][path[i + 1]]
                               <= tour.graph[path[i]][b])

\* A path over three attractions whose order was decided by the distances,
\* not by the order the graph lists them.
C34_Witness ==
    /\ tour.pc = "RETURNED"
    /\ tour.start = 1
    /\ tour.path = <<1, 3, 2>>
    /\ tour.graph[1][3] < tour.graph[1][2]

\* C32: in every assembled request adults is the number of profiles in the
\* traveler list, whatever adult count the extractor returned, and neither
\* the request nor its traveler list changes while the flight, hotel and
\* itinerary legs run on it.
C32_AdultsCountTravelers ==
    /\ [](bk.booking_params # <<>>
            => bk.booking_params["adults"] = Str(Len(bk.travelers_details)))
    /\ [][bk.booking_params # <<>>
            => /\ bk'.booking_params = bk.booking_params
               /\ bk'.travelers_details = bk.travelers_details]_vars

\* The three legs ran on a request of two travelers although the extractor
\* had counted another number of adults.
C32_Witness ==
    /\ bk.pc = "RETURNED"
    /\ bk.use_real_api
    /\ bk.itinerary_lookup # "none"
    /\ Len(bk.travelers_details) = 2
    /\ "adults" \in DOMAIN bk.flight_params
    /\ bk.flight_params["adults"] # "2"
    /\ bk.booking_params["adults"] = "2"

\* C13: in batch mode the request is assembled whatever the one-shot
\* extraction gave, without an exception, and each of origin, destination,
\* departure date and return date that the extraction did not give a value
\* for is the empty string in the assembled request.
C13_BatchAssemblesWithDefaults ==
    ~bk.interactive_mode =>
        /\ ~(bk.pc = "RAISED" /\ bk.raised_at = "assemble")
        /\ bk.booking_params # <<>> =>
              \A k \in DefaultedFields :
                  Get(bk.flight_params, k, None) = None => bk.booking_params[k] = ""

\* The decimal strings of the first positions of the traveler list.
DecimalIds == <<"1", "2", "3", "4", "5", "6", "7", "8", "9">>

\* C14: the traveler at position i carries the id that is the decimal string
\* of i; and a step never removes or changes a traveler already in the list,
\* it appends at most one, and only where a traveler is accepted.
C14_TravelerIdsSequential ==
    /\ [](\A i \in 1..Len(bk.travelers_details) :
              bk.travelers_details[i].id = DecimalIds[i])
    /\ [][LET before == bk.travelers_details
              after == bk'.travelers_details
          IN  /\ Len(after) \in {Len(before), Len(before) + 1}
              /\ SubSeq(after, 1, Len(before)) = before
              /\ Len(after) > Len(before) =>
                    bk.pc \in {"TRAVELER_EXTRACT", "T_PARSE"}]_vars

\* A second traveler was accepted in the add-another-traveler loop.
C14_Witness ==
    /\ bk.interactive_mode
    /\ bk.pc = "ADD_MORE"
    /\ Len(bk.travelers_details) = 2
    /\ bk.travelers_details[2].id = "2"

\* C15: a traveler extraction never ends the request with an exception:
\* when the extractor recognises two travelers in one text and answers with
\* the list of both, two profiles are appended.
C15_TwoTravelersFromOneInput ==
    [][bk.pc = "TRAVELER_EXTRACT" => bk'.pc # "RAISED"]_vars

\* C17: the llm_calls value a booking request returns, which is the value
\* of the module's counter at the return, is the number of LLM calls made
\* for that request, whatever calls the process served before.
C17_LlmCallsOfThisRequest ==
    bk.pc = "RETURNED" => llm_calls_count = bk.llm_made

\* ------------------------------------------- claims about the HTTP surface
\* C18: every session in the table is suspended awaiting an answer: no
\* session that has returned or has failed with an error is left in it.
C18_TableHoldsSuspendedOnly ==
    \A id \in DOMAIN SESSIONS : Suspended(SESSIONS[id])

\* C19: a continue request for a session id that is not in the table is
\* answered 400 "Invalid session_id" and leaves the table, and so every
\* stored session, as it was.
C19_UnknownIdRejected ==
    [][(/\ continues' = continues + 1
        /\ request'.session_id \notin DOMAIN SESSIONS)
          => /\ response'.status = 400
             /\ response'.detail = "Invalid session_id"
             /\ SESSIONS' = SESSIONS]_vars

\* The id of a session that was issued and has since left the table is
\* rejected while another session stays suspended.
C19_Witness ==
    /\ request.kind = "continue"
    /\ request.session_id <= issued
    /\ request.session_id \notin DOMAIN SESSIONS
    /\ response.status = 400
    /\ DOMAIN SESSIONS # {}

\* C20: a suspended session stays in the table, with its state and its
\* pending prompt unchanged, in every step that is not a continue request
\* addressed to its own id.
C20_SuspendedSessionsAreKept ==
    [][\A id \in DOMAIN SESSIONS :
          (/\ Suspended(SESSIONS[id])
           /\ ~(continues' = continues + 1 /\ request'.session_id = id))
             => /\ id \in DOMAIN SESSIONS'
                /\ SESSIONS'[id] = SESSIONS[id]]_vars

\* Session 1 is still suspended at its first prompt after a second session
\* was started, resumed and completed.
C20_Witness ==
    /\ issued = 2
    /\ 1 \in DOMAIN SESSIONS
    /\ Suspended(SESSIONS[1])
    /\ SESSIONS[1].invocations = 1
    /\ request = [kind |-> "continue", session_id |-> 2]
    /\ response.done

\* The one-shot extraction gave an object with a non-null value for every
\* required field.
OneShotGaveAllRequired ==
    /\ sess.one_shot.kind = "object"
    /\ \A i \in 1..Len(sess.required) :
          /\ sess.required[i] \in DOMAIN sess.one_shot.obj
          /\ sess.one_shot.obj[sess.required[i]] # None

\* C33: during a session the field mapping only grows: a field that holds
\* a value keeps that value through every later prompt, retry and failed
\* extraction, and the field a suspended session asks for is never one the
\* mapping already holds.
C33_MappingOnlyGrows ==
    /\ [][\A k \in DOMAIN sess.extracted_params :
             /\ k \in DOMAIN sess'.extracted_params
             /\ sess'.extracted_params[k] = sess.extracted_params[k]]_vars
    /\ [](Suspended(sess)
            => sess.emitted.param \notin DOMAIN sess.extracted_params)

\* A session completed with one field from the one-shot extraction and one
\* from a retry that followed a failed extraction.
C33_Witness ==
    /\ sess.interactive_mode
    /\ sess.pc = "COMPLETE"
    /\ Len(sess.required) = 2
    /\ sess.one_shot.kind = "object"
    /\ sess.required[1] \in DOMAIN sess.one_shot.obj
    /\ sess.required[2] \notin DOMAIN sess.one_shot.obj
    /\ sess.discarded >= 1
    /\ sess.extracted_params[sess.required[1]] = sess.one_shot.obj[sess.required[1]]
    /\ sess.required[2] \in DOMAIN sess.extracted_params

\* C24: an interactive session whose one-shot extraction gave a non-null
\* value for every required field is complete at once: no value was ever
\* sent to it, one extraction call was made and counted, and every non-null
\* value of the extraction is returned as it was.
C24_FullOneShotCompletesAtOnce ==
    (sess.interactive_mode /\ OneShotGaveAllRequired)
        => /\ sess.pc = "COMPLETE"
           /\ sends = 0
           /\ sess.llm_calls_count = 1
           /\ sess.invocations = 1
           /\ \A k \in DOMAIN sess.one_shot.obj :
                 sess.one_shot.obj[k] # None
                    => /\ k \in DOMAIN sess.extracted_params
                       /\ sess.extracted_params[k] = sess.one_shot.obj[k]

\* Two required fields, one of them extracted as the empty string, and a
\* third field extracted as null.
C24_Witness ==
    /\ sess.pc = "COMPLETE"
    /\ sess.interactive_mode
    /\ OneShotGaveAllRequired
    /\ Len(sess.required) = 2
    /\ \E i \in 1..2 : sess.one_shot.obj[sess.required[i]] = ""
    /\ \E k \in DOMAIN sess.one_shot.obj : sess.one_shot.obj[k] = None

\* C28: every text a resume delivers to the suspended session is passed to
\* the single-field extractor as the answer to a field prompt: none is
\* consumed and dropped, the one sent after an "Extraction failed" message
\* included.
C28_EveryAnswerReachesExtractor ==
    [][(Suspended(sess) /\ sends' = sends + 1 /\ ~user_input'.isNone)
          => /\ sess'.invocations = sess.invocations + 1
             /\ sess'.input_value = Strip(user_input'.text)
             /\ sess'.discarded = sess.discarded]_vars

\* C29: an interactive session has no retry limit and does not give up:
\* with a user who keeps answering until the extractor accepts an answer it
\* eventually completes, and when it is complete every required field is in
\* the returned mapping.
C29_LoopsUntilComplete ==
    /\ [](sess.interactive_mode => <>(sess.pc = "COMPLETE"))
    /\ []((sess.interactive_mode /\ sess.pc = "COMPLETE")
            => \A i \in 1..Len(sess.required) :
                  sess.required[i] \in DOMAIN sess.extracted_params)

TypedAt(fields) ==
    /\ trav.pc = "AWAITING_INPUT"
    /\ TravelerFields[trav.phase] \in fields
    /\ sends' = sends + 1
    /\ ~user_input'.isNone

\* '@' in e and '.' in e
WellFormedEmail(text) == Contains(text, "@") /\ Contains(text, ".")

\* C22: every email address a user typed that the traveler session holds
\* contains both '@' and '.', and a typed answer to the email prompt that
\* lacks one of them stores nothing and has the same prompt emitted again.
C22_EmailNeedsAtAndDot ==
    /\ [](\A i \in 1..Len(trav.all_extracted_details) :
             LET email == trav.all_extracted_details[i]["emailAddress"]
             IN  email.kind = "user" => WellFormedEmail(email.text))
    /\ [][(TypedAt({"emailAddress"}) /\ ~WellFormedEmail(user_input'.text))
             => /\ trav'.pc = "AWAITING_INPUT"
                /\ trav'.emitted = PromptTexts[trav.phase]
                /\ trav'.index = trav.index
                /\ trav'.all_extracted_details = trav.all_extracted_details]_vars

\* A traveler who lacked only the email address got one from the user at
\* the second answer: the first answer was refused.
C22_Witness ==
    /\ trav.pc = "COMPLETE"
    /\ sends = 2
    /\ Len(trav.all_extracted_details) = 1
    /\ trav.all_extracted_details[1]["emailAddress"].kind = "user"
    /\ \A k \in TravelerFieldSet \ {"emailAddress"} :
          trav.all_extracted_details[1][k] = LlmValue

\* C23: a typed answer to the name, date-of-birth or gender prompt that is
\* blank after trimming stores nothing and has the same prompt emitted again.
C23_BlankFreeTextAskedAgain ==
    [][(/\ TypedAt({"name", "dateOfBirth", "gender"})
        /\ Strip(user_input'.text) = <<>>)
          => /\ trav'.pc = "AWAITING_INPUT"
             /\ trav'.emitted = PromptTexts[trav.phase]
             /\ trav'.index = trav.index
             /\ trav'.all_extracted_details = trav.all_extracted_details]_vars

\* ------------------------------------- claims about concurrent requests
\* The places of a handler at which it is about to delete the table entry.
Deleting == {"stop_iteration", "except_exception"}

\* C21: two requests for one session id are never both inside the session's
\* generator, never both about to delete its table entry, and the entry of a
\* session is never deleted while a request is still advancing it.
C21_SessionOwnedByOneRequest ==
    \A t \in DOMAIN workers :
        /\ workers[t].pc = "in_generator"
              => workers[t].session_id \in DOMAIN SESSIONS
        /\ \A u \in DOMAIN workers \ {t} :
              workers[u].session_id = workers[t].session_id
                 => /\ ~(workers[t].pc = "in_generator" /\ workers[u].pc = "in_generator")
                    /\ ~(workers[t].pc \in Deleting /\ workers[u].pc \in Deleting)

====
